---- MODULE Spec2Model ----
(***************************************************************************)
(* A model of the item service (app/main.py, app/enhanced_main.py) and the *)
(* article service (app/article_main.py) over their document collections.  *)
(*                                                                         *)
(* Texts are sequences of one-character strings, so that slicing,          *)
(* splitting, case folding and substring search are computed rather than   *)
(* assumed.  An Optional[T] value is None (the empty tuple) or Some(v)     *)
(* (the one-element tuple <<v>>).  A stored document or a dict is a        *)
(* function whose DOMAIN is the set of keys it has.                        *)
(***************************************************************************)
EXTENDS Integers, Sequences, FiniteSets, TLC

VARIABLES
    pc,          \* position of the run: "start"/"done" for a function call, "serving" for a service
    args,        \* the arguments of the function under check
    result,      \* the value the function returned
    deployment,  \* which service is running against the database: "items" or "articles"
    items,       \* the items collection: sequence of documents in insertion order
    articles,    \* the articles collection: sequence of documents in insertion order
    users,       \* the users collection: sequence of documents in insertion order
    indexes,     \* the unique indexes the database holds
    next_id,     \* the store's generator of _id values
    clock,       \* the last value datetime.utcnow() returned
    request,     \* the request being answered
    response     \* the response delivered to the caller

vars == <<pc, args, result, deployment, items, articles, users, indexes, next_id, clock,
          request, response>>

storeVars == <<deployment, items, articles, users, indexes, next_id, clock, request, response>>

callVars == <<args, result>>

----------------------------------------------------------------------------
(* Bounds of the model                                                     *)

MaxTextLen == 4      \* longest block text drawn for the excerpt extractor
MaxLength == 3       \* largest max_length drawn for the excerpt extractor
MaxBlocks == 3       \* longest block sequence drawn with short texts

----------------------------------------------------------------------------
(* Python values                                                           *)

None == <<>>

Some(v) == <<v>>

Min(a, b) == IF a <= b THEN a ELSE b

\* dict.get(key, default)
Get(d, key, default) == IF key \in DOMAIN d THEN d[key] ELSE default

\* all sequences over S of length at most n
SeqsUpTo(S, n) == UNION {[1..k -> S] : k \in 0..n}

\* text[:n]
Take(text, n) == SubSeq(text, 1, Min(n, Len(text)))

RECURSIVE SplitFrom(_, _, _)
SplitFrom(text, i, word) ==
    IF i > Len(text)
    THEN IF word = <<>> THEN <<>> ELSE <<word>>
    ELSE IF text[i] = " "
         THEN IF word = <<>>
              THEN SplitFrom(text, i + 1, <<>>)
              ELSE <<word>> \o SplitFrom(text, i + 1, <<>>)
         ELSE SplitFrom(text, i + 1, Append(word, text[i]))

\* str.split(): the maximal runs of non-whitespace characters
split(text) == SplitFrom(text, 1, <<>>)

RECURSIVE join(_)
\* " ".join(words)
join(words) ==
    IF words = <<>> THEN <<>>
    ELSE IF Len(words) = 1 THEN words[1]
    ELSE words[1] \o <<" ">> \o join(Tail(words))

Ellipsis == <<".", ".", ".">>

----------------------------------------------------------------------------
(* article_summary_helper.extract_excerpt                                  *)

ContentTypes == {"mainText", "scripture", "reflection"}

DefaultMaxLength == 150

\* the mainText/reflection path, one character too eager: truncates a text of
\* length exactly max_length
ExcerptOfTextBlockStrict(block, max_length) ==
    LET text == Get(block, "value", <<>>) IN
    IF Len(text) < max_length
    THEN text
    ELSE LET words == split(Take(text, max_length))
             kept == IF Len(words) > 1 THEN SubSeq(words, 1, Len(words) - 1) ELSE words
         IN  join(kept) \o Ellipsis

\* lines 72-80: the excerpt of the first mainText/reflection block
ExcerptOfTextBlock(block, max_length) ==
    LET text == Get(block, "value", <<>>) IN
    IF Len(text) <= max_length
    THEN text
    ELSE LET words == split(Take(text, max_length))
             kept == IF Len(words) > 1 THEN SubSeq(words, 1, Len(words) - 1) ELSE words
         IN  join(kept) \o Ellipsis

\* lines 84-91: the excerpt of the first block, when no block is mainText/reflection
ExcerptOfFirstBlock(block, max_length) ==
    LET text == Get(block, "value", <<>>) IN
    IF Len(text) <= max_length
    THEN text
    ELSE LET words == split(Take(text, max_length))
             kept == IF Len(words) > 1 THEN SubSeq(words, 1, Len(words) - 1) ELSE words
         IN  join(kept) \o Ellipsis

\* the scan accepting every block type: a scripture block may be chosen
RECURSIVE ScanForTextAnyType(_, _)
ScanForTextAnyType(content_blocks, i) ==
    IF i > Len(content_blocks) THEN 0
    ELSE IF "type" \in DOMAIN content_blocks[i] /\ content_blocks[i]["type"] \in ContentTypes
         THEN i
         ELSE ScanForTextAnyType(content_blocks, i + 1)

\* lines 70-71: the for loop; the index of the block it returns from, 0 when it falls through
RECURSIVE ScanForText(_, _)
ScanForText(content_blocks, i) ==
    IF i > Len(content_blocks) THEN 0
    ELSE IF "type" \in DOMAIN content_blocks[i]
            /\ content_blocks[i]["type"] \in {"mainText", "reflection"}
         THEN i
         ELSE ScanForText(content_blocks, i + 1)

extract_excerpt(content_blocks, max_length) ==
    IF content_blocks = <<>>
    THEN <<>>
    ELSE LET hit == ScanForText(content_blocks, 1) IN
         IF hit # 0
         THEN ExcerptOfTextBlock(content_blocks[hit], max_length)
         ELSE ExcerptOfFirstBlock(content_blocks[1], max_length)

----------------------------------------------------------------------------
(* The excerpt extractor on drawn inputs                                   *)

ExcerptChars == {"x", " "}

Texts == SeqsUpTo(ExcerptChars, MaxTextLen)

ShortTexts == {<<"x">>, <<" ">>, <<"x", "x">>}

BlocksOver(T) == [type : ContentTypes, value : T]

\* the idle store of a run that only calls a function
IdleStore ==
    /\ deployment = "none"
    /\ items = <<>>
    /\ articles = <<>>
    /\ users = <<>>
    /\ indexes = {}
    /\ next_id = 1
    /\ clock = 0
    /\ request = [op |-> "none"]
    /\ response = [op |-> "none"]

InitExcerpt ==
    /\ pc = "start"
    /\ args \in [content_blocks : SeqsUpTo(BlocksOver(ShortTexts), MaxBlocks)
                                     \cup SeqsUpTo(BlocksOver(Texts), 2),
                 max_length : 1..MaxLength]
    /\ result = None
    /\ IdleStore

CallExtractExcerpt ==
    /\ pc = "start"
    /\ result' = extract_excerpt(args.content_blocks, args.max_length)
    /\ pc' = "done"
    /\ UNCHANGED <<args, storeVars>>

NextExcerpt == CallExtractExcerpt

SpecExcerpt == InitExcerpt /\ [][NextExcerpt]_vars

----------------------------------------------------------------------------
(* Documents and queries of the store                                      *)

\* the dict with no key
EmptyDict == <<>>

\* the dict {key: value} of an Optional value, empty when it is None
Field(key, opt) == IF opt = None THEN EmptyDict ELSE (key :> opt[1])

Range(seq) == {seq[i] : i \in DOMAIN seq}

ItemCategories == {"electronics", "clothing", "books", "home", "sports", "other"}

\* {field: value}: the document has the field and it equals the value
\* (a document lacking the field matches no non-null value)
FieldEquals(doc, key, value) == key \in DOMAIN doc /\ doc[key] = value

\* {"price": {"$gte": lo, "$lte": hi}}, each operator optional
FieldInRange(doc, key, cond) ==
    /\ key \in DOMAIN doc
    /\ "$gte" \in DOMAIN cond => doc[key] >= cond["$gte"]
    /\ "$lte" \in DOMAIN cond => doc[key] <= cond["$lte"]

\* {"tags": {"$in": values}} on an array field: some element is one of the values
FieldIn(doc, key, cond) ==
    /\ key \in DOMAIN doc
    /\ Range(doc[key]) \cap Range(cond["$in"]) # {}

----------------------------------------------------------------------------
(* enhanced_main.build_filter_query, all fields but the search text        *)

\* truthiness of an Optional[str enum]: the members are non-empty strings
TruthyEnum(opt) == opt # None /\ opt[1] # ""

\* truthiness of an Optional[List] or of an Optional[str] held as a character sequence
TruthySeq(opt) == opt # None /\ opt[1] # <<>>

\* the price constraint built only from truthy bounds: a bound of 0 is lost
PriceQueryTruthy(filters) ==
    IF (filters.min_price # None /\ filters.min_price[1] # 0)
       \/ (filters.max_price # None /\ filters.max_price[1] # 0)
    THEN "price" :> ((IF filters.min_price # None /\ filters.min_price[1] # 0
                      THEN "$gte" :> filters.min_price[1] ELSE EmptyDict)
                     @@ (IF filters.max_price # None /\ filters.max_price[1] # 0
                         THEN "$lte" :> filters.max_price[1] ELSE EmptyDict))
    ELSE EmptyDict

\* lines 86-92
PriceQuery(filters) ==
    IF filters.min_price # None \/ filters.max_price # None
    THEN "price" :> (Field("$gte", filters.min_price) @@ Field("$lte", filters.max_price))
    ELSE EmptyDict

\* the active flag tested for truthiness: is_active = false is lost
ActiveQueryTruthy(filters) ==
    IF filters.is_active # None /\ filters.is_active[1]
    THEN "is_active" :> filters.is_active[1]
    ELSE EmptyDict

\* lines 83-84
ActiveQuery(filters) ==
    IF filters.is_active # None THEN "is_active" :> filters.is_active[1] ELSE EmptyDict

\* lines 80-81
CategoryQuery(filters) ==
    IF TruthyEnum(filters.category) THEN "category" :> filters.category[1] ELSE EmptyDict

\* lines 94-95
TagsQuery(filters) ==
    IF TruthySeq(filters.tags) THEN "tags" :> ("$in" :> filters.tags[1]) ELSE EmptyDict

\* lines 97-98
TextQuery(filters) ==
    IF TruthySeq(filters.search) THEN "$text" :> ("$search" :> filters.search[1]) ELSE EmptyDict

build_filter_query(filters) ==
    CategoryQuery(filters) @@ ActiveQuery(filters) @@ PriceQuery(filters)
        @@ TagsQuery(filters) @@ TextQuery(filters)

----------------------------------------------------------------------------
(* Text search of the store                                                *)

\* str.lower() on the letters of the model
Lower(c) == IF c = "X" THEN "x" ELSE IF c = "Y" THEN "y" ELSE c

Fold(text) == [i \in DOMAIN text |-> Lower(text[i])]

\* the terms of a text under the text index: split at whitespace and
\* punctuation, case folded
Tokens(text) ==
    Range(split([i \in DOMAIN text |-> IF text[i] = "." THEN " " ELSE Lower(text[i])]))

\* database.create_indexes: the text index of the items collection
ItemTextIndex == {"name", "description"}

\* the terms of the indexed fields of a document; description is null or a string
IndexedTokens(doc) ==
    (IF "name" \in DOMAIN doc THEN Tokens(doc["name"]) ELSE {})
    \cup (IF "description" \in DOMAIN doc /\ doc["description"] # None
          THEN Tokens(doc["description"][1]) ELSE {})

\* {"$text": {"$search": q}}: some term of q is a term of an indexed field
TextSearch(doc, cond) == Tokens(cond["$search"]) \cap IndexedTokens(doc) # {}

\* collection.find(query) / count_documents(query) on one item document
MatchesItemQuery(query, doc) ==
    /\ "category" \in DOMAIN query => FieldEquals(doc, "category", query["category"])
    /\ "is_active" \in DOMAIN query => FieldEquals(doc, "is_active", query["is_active"])
    /\ "price" \in DOMAIN query => FieldInRange(doc, "price", query["price"])
    /\ "tags" \in DOMAIN query => FieldIn(doc, "tags", query["tags"])
    /\ "$text" \in DOMAIN query => TextSearch(doc, query["$text"])

----------------------------------------------------------------------------
(* The item filter on drawn filters and documents                          *)

MaxPrice == 2        \* largest price and price bound drawn

Opt(S) == {None} \cup {Some(v) : v \in S}

SomeCategories == {"books", "other"}

TagLists == {<<>>, <<"t1">>, <<"t2">>, <<"t1", "t2">>}

\* ItemFilter records without a search text
PlainItemFilters ==
    [category : Opt(SomeCategories), is_active : Opt(BOOLEAN),
     min_price : Opt(0..MaxPrice), max_price : Opt(0..MaxPrice),
     tags : Opt(TagLists), search : {None}]

\* stored item documents: the optional fields may each be missing, as in a
\* document written by main.create_item (and then patched by update_item)
FilterDocs ==
    {("name" :> <<"x">>) @@ ("price" :> p) @@ Field("category", c)
         @@ Field("tags", t) @@ Field("is_active", a) :
       p \in 1..MaxPrice, c \in Opt(SomeCategories), t \in Opt(TagLists), a \in Opt(BOOLEAN)}

InitFilter ==
    /\ pc = "start"
    /\ args \in [filters : PlainItemFilters, item : FilterDocs]
    /\ result = None
    /\ IdleStore

CallBuildFilterQuery ==
    /\ pc = "start"
    /\ LET query == build_filter_query(args.filters) IN
       result' = [query |-> query, matched |-> MatchesItemQuery(query, args.item)]
    /\ pc' = "done"
    /\ UNCHANGED <<args, storeVars>>

NextFilter == CallBuildFilterQuery

SpecFilter == InitFilter /\ [][NextFilter]_vars

----------------------------------------------------------------------------
(* article_main.build_search_query and the queries of the search handlers  *)

Themes == {"gray", "warm", "blue", "green", "purple"}

Languages == {"tamil", "english"}

\* lines 117, 325: {"$regex": q, "$options": "i"}
SearchRegex(q) == ("$regex" :> q) @@ ("$options" :> "i")

\* the disjunction over the two titles alone: the content values are not searched
BothTitles(q) ==
    <<"title.tamil" :> SearchRegex(q), "title.english" :> SearchRegex(q)>>

\* lines 118-123, 345-352: the disjunction over the titles and contents of both languages
BothLanguages(q) ==
    <<"title.tamil" :> SearchRegex(q), "title.english" :> SearchRegex(q),
      "content.tamil.value" :> SearchRegex(q), "content.english.value" :> SearchRegex(q)>>

\* lines 330-342: the disjunction over the title and content of one language
OneLanguage(language, q) ==
    IF language = "tamil"
    THEN <<"title.tamil" :> SearchRegex(q), "content.tamil.value" :> SearchRegex(q)>>
    ELSE <<"title.english" :> SearchRegex(q), "content.english.value" :> SearchRegex(q)>>

\* the search disjunction that does read filters.language
SearchClausesByLanguage(filters) ==
    IF TruthyEnum(filters.language)
    THEN OneLanguage(filters.language[1], filters.search[1])
    ELSE BothLanguages(filters.search[1])

\* lines 115-123: filters.language is never read
SearchClauses(filters) == BothLanguages(filters.search[1])

build_search_query(filters) ==
    (IF TruthyEnum(filters.theme) THEN "theme" :> filters.theme[1] ELSE EmptyDict)
    @@ (IF TruthySeq(filters.search) THEN "$or" :> SearchClauses(filters) ELSE EmptyDict)

\* search_articles, lines 325-352
SearchArticlesQuery(q, language) ==
    IF TruthyEnum(language)
    THEN "$or" :> OneLanguage(language[1], q)
    ELSE "$or" :> BothLanguages(q)

\* search_items, lines 198-199
SearchItemsQuery(q) == "$text" :> ("$search" :> q)

\* {"$regex": pattern, "$options": "i"} on one string: the pattern is found
\* somewhere in it, "." standing for any character, letters compared case folded
RegexSearch(cond, text) ==
    LET pattern == cond["$regex"]
        same(a, b) == IF cond["$options"] = "i" THEN Lower(a) = Lower(b) ELSE a = b
    IN  \E s \in 1..(Len(text) - Len(pattern) + 1) :
            \A j \in 1..Len(pattern) :
                pattern[j] = "." \/ same(pattern[j], text[s + j - 1])

\* the strings a dotted path reaches in an article document; a path through
\* the array of blocks reaches the value of every block
PathValues(doc, path) ==
    IF path = "title.tamil" THEN {doc.title.tamil}
    ELSE IF path = "title.english" THEN {doc.title.english}
    ELSE IF path = "content.tamil.value" THEN {b.value : b \in Range(doc.content.tamil)}
    ELSE {b.value : b \in Range(doc.content.english)}

\* one clause {path: regex} of a disjunction
MatchesClause(clause, doc) ==
    \E path \in DOMAIN clause : \E text \in PathValues(doc, path) : RegexSearch(clause[path], text)

\* collection.find(query) / count_documents(query) on one article document
MatchesArticleQuery(query, doc) ==
    /\ "theme" \in DOMAIN query => FieldEquals(doc, "theme", query["theme"])
    /\ "$or" \in DOMAIN query => \E i \in DOMAIN query["$or"] : MatchesClause(query["$or"][i], doc)

----------------------------------------------------------------------------
(* The text search on drawn queries and documents                          *)

MaxContentBlocks == 1   \* longest content sequence per language drawn for the search

FieldTexts == {<<>>, <<"X", "y">>, <<"y">>, <<"x", " ", "y">>}

Queries == {<<"x">>, <<"Y">>, <<"x", "y">>, <<"y", " ", "x">>, <<".">>}

SomeThemes == {"gray", "warm"}

SearchedBlocks == [type : {"mainText"}, value : FieldTexts \ {<<>>}]

SearchedItems ==
    [name : FieldTexts \ {<<>>}, description : Opt(FieldTexts), category : SomeCategories]

SearchedArticles ==
    [title : [tamil : FieldTexts, english : FieldTexts],
     theme : SomeThemes,
     content : [tamil : SeqsUpTo(SearchedBlocks, MaxContentBlocks),
                english : SeqsUpTo(SearchedBlocks, MaxContentBlocks)]]

InitSearch ==
    /\ pc = "start"
    /\ \/ args \in [kind : {"item"}, q : Queries, category : Opt(SomeCategories),
                    item : SearchedItems]
       \/ args \in [kind : {"article"}, q : Queries, language : Opt(Languages),
                    theme : Opt(SomeThemes), article : SearchedArticles]
    /\ result = None
    /\ IdleStore

\* get_items, lines 162-170, with a search text and a category
CallBuildFilterQuerySearch ==
    /\ pc = "start" /\ args.kind = "item"
    /\ LET filters == [category |-> args.category, is_active |-> None, min_price |-> None,
                       max_price |-> None, tags |-> None, search |-> Some(args.q)]
       IN  result' = [op |-> "build_filter_query",
                      matched |-> MatchesItemQuery(build_filter_query(filters), args.item)]
    /\ pc' = "done"
    /\ UNCHANGED <<args, storeVars>>

CallSearchItems ==
    /\ pc = "start" /\ args.kind = "item"
    /\ result' = [op |-> "search_items",
                  matched |-> MatchesItemQuery(SearchItemsQuery(args.q), args.item)]
    /\ pc' = "done"
    /\ UNCHANGED <<args, storeVars>>

CallBuildSearchQuery ==
    /\ pc = "start" /\ args.kind = "article"
    /\ LET filters == [theme |-> args.theme, language |-> args.language, search |-> Some(args.q)]
       IN  result' = [op |-> "build_search_query",
                      matched |-> MatchesArticleQuery(build_search_query(filters), args.article)]
    /\ pc' = "done"
    /\ UNCHANGED <<args, storeVars>>

CallSearchArticles ==
    /\ pc = "start" /\ args.kind = "article"
    /\ result' = [op |-> "search_articles",
                  matched |-> MatchesArticleQuery(SearchArticlesQuery(args.q, args.language),
                                                  args.article)]
    /\ pc' = "done"
    /\ UNCHANGED <<args, storeVars>>

NextSearch ==
    \/ CallBuildFilterQuerySearch
    \/ CallSearchItems
    \/ CallBuildSearchQuery
    \/ CallSearchArticles

SpecSearch == InitSearch /\ [][NextSearch]_vars

----------------------------------------------------------------------------
(* enhanced_main.item_helper and user_helper                               *)

MaxClock == 3        \* last instant the clock reaches

Times == 1..MaxClock

\* str(ObjectId): the 24-digit hex string of a store-assigned _id
ObjectIdStr(oid) == [hex |-> oid.oid]

\* item.get("is_active") or True: a stored false is replaced by the default
ActiveOrDefault(doc) ==
    IF "is_active" \in DOMAIN doc /\ doc["is_active"] THEN doc["is_active"] ELSE TRUE

\* lines 58, 71: .get("is_active", True)
ActiveOf(doc) == Get(doc, "is_active", TRUE)

\* now is the value of datetime.utcnow() at the call
item_helper(item, now) ==
    [id |-> ObjectIdStr(item["_id"]),
     name |-> item["name"],
     description |-> Get(item, "description", None),
     price |-> item["price"],
     quantity |-> item["quantity"],
     category |-> Get(item, "category", "other"),
     tags |-> Get(item, "tags", <<>>),
     is_active |-> ActiveOf(item),
     created_at |-> Get(item, "created_at", now),
     updated_at |-> Get(item, "updated_at", now)]

user_helper(user, now) ==
    [id |-> ObjectIdStr(user["_id"]),
     username |-> user["username"],
     email |-> user["email"],
     full_name |-> Get(user, "full_name", None),
     role |-> Get(user, "role", "user"),
     is_active |-> ActiveOf(user),
     created_at |-> Get(user, "created_at", now),
     updated_at |-> Get(user, "updated_at", now)]

----------------------------------------------------------------------------
(* The projections on drawn documents                                      *)

UserRoles == {"admin", "user", "moderator"}

\* stored item documents, each optional field present or missing
ProjectedItems ==
    {("_id" :> [oid |-> 1]) @@ ("name" :> <<"x">>) @@ ("price" :> 1) @@ ("quantity" :> 0)
         @@ Field("description", d) @@ Field("category", c) @@ Field("tags", t)
         @@ Field("is_active", a) @@ Field("created_at", ca) @@ Field("updated_at", ua) :
       d \in Opt({None, Some(<<"y">>)}), c \in Opt(SomeCategories), t \in Opt(TagLists),
       a \in Opt(BOOLEAN), ca \in Opt(Times), ua \in Opt(Times)}

ProjectedUsers ==
    {("_id" :> [oid |-> 1]) @@ ("username" :> <<"x", "x", "x">>) @@ ("email" :> <<"x">>)
         @@ Field("full_name", f) @@ Field("role", r) @@ Field("is_active", a)
         @@ Field("created_at", ca) @@ Field("updated_at", ua) :
       f \in Opt({None, Some(<<"y">>)}), r \in Opt(UserRoles), a \in Opt(BOOLEAN),
       ca \in Opt(Times), ua \in Opt(Times)}

InitProjection ==
    /\ pc = "start"
    /\ \/ args \in [kind : {"item"}, doc : ProjectedItems]
       \/ args \in [kind : {"user"}, doc : ProjectedUsers]
    /\ result = None
    /\ IdleStore

\* the helper is called, any number of times, at any instant
CallItemHelper ==
    /\ args.kind = "item"
    /\ \E now \in Times : result' = [op |-> "item_helper", value |-> item_helper(args.doc, now)]
    /\ pc' = "done"
    /\ UNCHANGED <<args, storeVars>>

CallUserHelper ==
    /\ args.kind = "user"
    /\ \E now \in Times : result' = [op |-> "user_helper", value |-> user_helper(args.doc, now)]
    /\ pc' = "done"
    /\ UNCHANGED <<args, storeVars>>

NextProjection == CallItemHelper \/ CallUserHelper

SpecProjection == InitProjection /\ [][NextProjection]_vars

----------------------------------------------------------------------------
(* Handlers: what they share                                               *)

MaxItems == 2        \* most documents inserted into a collection of a running service

\* an HTTPException and the error response it becomes; the detail is its message
HTTPException(status_code, message) == [status |-> status_code, detail |-> [message |-> message]]

\* an HTTPException whose detail is an f-string naming an article id
HTTPExceptionAbout(status_code, message, id) ==
    [status |-> status_code, detail |-> [message |-> message, id |-> id]]

\* database.create_indexes, run at startup: the unique indexes of the users collection
StartupIndexes == {"users.username", "users.email"}

\* the unique index on the article id, which upload_articles_from_json creates (line 400)
ArticleIdIndex == "articles.id"

\* a returned value, delivered with status 200
Ok(body) == [status |-> 200, body |-> body]

\* response_model: the returned dict is delivered as the declared fields of
\* the model; keys the model does not declare are dropped
ResponseModel(fields, value) == [key \in fields \cap DOMAIN value |-> value[key]]

\* datetime.utcnow(): the clock has not gone back; it stops at MaxClock
utcnow == IF clock < MaxClock THEN {clock, clock + 1} ELSE {clock}

\* the request is answered: the response is delivered to its caller
Answer(req, resp) ==
    /\ request' = req
    /\ response' = resp

\* ObjectId(item_id) raises InvalidId unless the string is 24 hex digits
ObjectIdValid(item_id) == "hex" \in DOMAIN item_id

ObjectId(item_id) == [oid |-> item_id.hex]

\* the positions of the documents of a collection that satisfy a predicate
Positions(coll, Match(_)) == {i \in DOMAIN coll : Match(coll[i])}

First(S) == CHOOSE i \in S : \A j \in S : i <= j

\* a find_one that ignores its filter: the first document of the collection
FindAny(coll, oid) == IF coll = <<>> THEN 0 ELSE 1

\* collection.find_one({"_id": oid}): the position of the document, 0 for None
FindById(coll, oid) ==
    LET hits == Positions(coll, LAMBDA doc : doc["_id"] = oid)
    IN  IF hits = {} THEN 0 ELSE First(hits)

\* the documents matching a query, in natural (insertion) order
Find(coll, Match(_)) == SelectSeq(coll, Match)

\* the sequence without its i-th element
Without(seq, i) == SubSeq(seq, 1, i - 1) \o SubSeq(seq, i + 1, Len(seq))

\* the sort key of .sort("created_at", -1): a missing field sorts as null, below every date
CreatedKey(doc) == Get(doc, "created_at", 0)

RECURSIVE SortCreatedDesc(_)
\* .sort("created_at", -1); documents of equal key stay in natural order
SortCreatedDesc(docs) ==
    IF docs = <<>> THEN <<>>
    ELSE LET top == First({i \in DOMAIN docs :
                              \A j \in DOMAIN docs : CreatedKey(docs[j]) <= CreatedKey(docs[i])})
         IN  <<docs[top]>> \o SortCreatedDesc(Without(docs, top))

\* .skip(skip).limit(limit) on a sorted cursor
Page(docs, skip, limit) == SubSeq(docs, skip + 1, Min(skip + limit, Len(docs)))

----------------------------------------------------------------------------
(* The item service: enhanced_main.py, and main.py on the same collection  *)

ItemResponseFields ==
    {"id", "name", "description", "price", "quantity", "category", "tags", "is_active",
     "created_at", "updated_at"}

\* main.py, lines 25-30
MainItemResponseFields == {"id", "name", "description", "price", "quantity"}

\* main.item_helper
main_item_helper(item) ==
    [id |-> ObjectIdStr(item["_id"]),
     name |-> item["name"],
     description |-> Get(item, "description", None),
     price |-> item["price"],
     quantity |-> item["quantity"]]

\* main.create_item: the document has the four fields of main.Item and no timestamps
main_create_item(item) ==
    /\ deployment = "items"
    /\ LET stored == ("_id" :> [oid |-> next_id]) @@ item
           grown == Append(items, stored)
           new_item == grown[FindById(grown, [oid |-> next_id])]
       IN  /\ items' = grown
           /\ Answer([op |-> "main.create_item", item |-> item],
                     Ok(ResponseModel(MainItemResponseFields, main_item_helper(new_item))))
    /\ next_id' = next_id + 1
    /\ UNCHANGED <<articles, clock, deployment, users, indexes>>

create_item(item) ==
    /\ deployment = "items"
    /\ \E now \in utcnow :
         LET item_dict == item @@ ("created_at" :> now) @@ ("updated_at" :> now)
             stored == ("_id" :> [oid |-> next_id]) @@ item_dict
             grown == Append(items, stored)
             new_item == grown[FindById(grown, [oid |-> next_id])]
         IN  /\ items' = grown
             /\ clock' = now
             /\ Answer([op |-> "create_item", item |-> item],
                       Ok(ResponseModel(ItemResponseFields, item_helper(new_item, now))))
    /\ next_id' = next_id + 1
    /\ UNCHANGED <<articles, deployment, users, indexes>>

\* line 186, with the comparison off by one
HasNextInclusive(skip, limit, total) == skip + limit <= total

\* line 186
HasNext(skip, limit, total) == skip + limit < total

\* line 187
HasPrevious(skip) == skip > 0

get_items(skip, limit, filters) ==
    /\ deployment = "items"
    /\ \E now \in utcnow :
         LET query == build_filter_query(filters)
             matching == Find(items, LAMBDA doc : MatchesItemQuery(query, doc))
             total == Len(matching)
             cursor == Page(SortCreatedDesc(matching), skip, limit)
             found == [i \in DOMAIN cursor |->
                          ResponseModel(ItemResponseFields, item_helper(cursor[i], now))]
         IN  /\ clock' = now
             /\ Answer([op |-> "get_items", skip |-> skip, limit |-> limit, filters |-> filters],
                       Ok([items |-> found, total |-> total, skip |-> skip, limit |-> limit,
                           has_next |-> HasNext(skip, limit, total),
                           has_previous |-> HasPrevious(skip)]))
    /\ UNCHANGED <<items, articles, next_id, deployment, users, indexes>>

\* the orders in which the text score may rank the matching documents
Rankings(docs) ==
    {[i \in DOMAIN docs |-> docs[p[i]]] : p \in Permutations(DOMAIN docs)}

\* search_items: the matches of the text search, best score first, cut at limit
search_items(q, limit) ==
    /\ deployment = "items"
    /\ \E now \in utcnow :
         LET query == SearchItemsQuery(q)
             matching == Find(items, LAMBDA doc : MatchesItemQuery(query, doc))
         IN  \E ranked \in Rankings(matching) :
                 LET cursor == Page(ranked, 0, limit)
                     found == [i \in DOMAIN cursor |->
                                  ResponseModel(ItemResponseFields, item_helper(cursor[i], now))]
                 IN  /\ clock' = now
                     /\ Answer([op |-> "search_items", q |-> q, limit |-> limit], Ok(found))
    /\ UNCHANGED <<items, articles, next_id, deployment, users, indexes>>

\* the outcome of a try body: a value returned or an exception raised
Returned(value) == [returned |-> value]

Raised(exception) == [raised |-> exception]

\* bson.errors.InvalidId
InvalidId == [exception |-> "InvalidId"]

\* lines 219-220, 245-246, 258-259: `except Exception` catches every
\* exception raised in the try body, the HTTPExceptions raised there included
ExceptInvalidItemId(outcome) ==
    IF "raised" \in DOMAIN outcome
    THEN HTTPException(400, "Invalid item ID")
    ELSE Ok(outcome.returned)

get_item(item_id) ==
    /\ deployment = "items"
    /\ \E now \in utcnow :
         LET outcome ==
                 IF ~ObjectIdValid(item_id) THEN Raised(InvalidId)
                 ELSE LET i == FindById(items, ObjectId(item_id)) IN
                      IF i # 0
                      THEN Returned(ResponseModel(ItemResponseFields, item_helper(items[i], now)))
                      ELSE Raised(HTTPException(404, "Item not found"))
         IN  /\ clock' = now
             /\ Answer([op |-> "get_item", item_id |-> item_id], ExceptInvalidItemId(outcome))
    /\ UNCHANGED <<items, articles, next_id, deployment, users, indexes>>

\* line 229: the fields of the update that are not None; description, a
\* nullable field of the document, is stored as the string it is given
UpdateData(item_update) ==
    [key \in {k \in DOMAIN item_update : item_update[k] # None} |->
        IF key = "description" THEN item_update[key] ELSE item_update[key][1]]

\* update_one({"_id": oid}, {"$set": update_data}): the document after the update
Patched(doc, update_data) == update_data @@ doc

update_item(item_id, item_update) ==
    /\ deployment = "items"
    /\ \E now \in utcnow :
         LET update_data == UpdateData(item_update)
             stamped == update_data @@ ("updated_at" :> now)
             i == IF update_data # EmptyDict /\ ObjectIdValid(item_id)
                  THEN FindById(items, ObjectId(item_id)) ELSE 0
             modified_count == IF i # 0 /\ Patched(items[i], stamped) # items[i] THEN 1 ELSE 0
             updated == IF i # 0 THEN [items EXCEPT ![i] = Patched(items[i], stamped)] ELSE items
             outcome ==
                 IF update_data = EmptyDict
                 THEN Raised(HTTPException(400, "No fields to update"))
                 ELSE IF ~ObjectIdValid(item_id) THEN Raised(InvalidId)
                 ELSE IF modified_count = 1
                      THEN Returned(ResponseModel(ItemResponseFields, item_helper(updated[i], now)))
                      ELSE Raised(HTTPException(404, "Item not found"))
         IN  /\ items' = updated
             /\ clock' = now
             /\ Answer([op |-> "update_item", item_id |-> item_id, item_update |-> item_update],
                       ExceptInvalidItemId(outcome))
    /\ UNCHANGED <<articles, next_id, deployment, users, indexes>>

delete_item(item_id) ==
    /\ deployment = "items"
    /\ LET i == IF ObjectIdValid(item_id) THEN FindById(items, ObjectId(item_id)) ELSE 0
           outcome ==
               IF ~ObjectIdValid(item_id) THEN Raised(InvalidId)
               ELSE IF i # 0
                    THEN Returned([message |-> "Item deleted successfully"])
                    ELSE Raised(HTTPException(404, "Item not found"))
       IN  /\ items' = IF i # 0 THEN Without(items, i) ELSE items
           /\ Answer([op |-> "delete_item", item_id |-> item_id], ExceptInvalidItemId(outcome))
    /\ UNCHANGED <<articles, next_id, clock, deployment, users, indexes>>

----------------------------------------------------------------------------
(* The article service: article_main.py                                    *)

ArticleResponseFields == {"id", "title", "theme", "content", "created_at", "updated_at"}

\* article_models.ArticleSummary declares these fields and no excerpt
ArticleSummaryFields == {"id", "title", "theme", "created_at"}

\* article_models.ArticleListResponse: every field is required
ArticleListResponseFields == {"articles", "total", "skip", "limit", "has_next", "has_previous"}

ArticleIdLimit == 100

article_helper(article, now) ==
    [id |-> article["id"],
     title |-> article["title"],
     theme |-> article["theme"],
     content |-> article["content"],
     created_at |-> Get(article, "created_at", now),
     updated_at |-> Get(article, "updated_at", now)]

article_summary_helper(article, now) ==
    LET content == Get(article, "content", [tamil |-> <<>>, english |-> <<>>]) IN
    [id |-> article["id"],
     title |-> article["title"],
     theme |-> article["theme"],
     excerpt |-> [tamil |-> extract_excerpt(Get(content, "tamil", <<>>), DefaultMaxLength),
                  english |-> extract_excerpt(Get(content, "english", <<>>), DefaultMaxLength)],
     created_at |-> Get(article, "created_at", now)]

RECURSIVE LStrip(_)
LStrip(text) == IF text # <<>> /\ text[1] = " " THEN LStrip(Tail(text)) ELSE text

RECURSIVE RStrip(_)
RStrip(text) ==
    IF text # <<>> /\ text[Len(text)] = " " THEN RStrip(SubSeq(text, 1, Len(text) - 1)) ELSE text

\* str.strip()
Strip(text) == RStrip(LStrip(text))

\* collection.find_one({"id": article_id}): the position of the first such document, 0 for None
FindByArticleId(coll, article_id) ==
    LET hits == Positions(coll, LAMBDA doc : FieldEquals(doc, "id", article_id))
    IN  IF hits = {} THEN 0 ELSE First(hits)

\* an exception no handler catches is answered by the framework
Unhandled(outcome) ==
    IF "raised" \in DOMAIN outcome
    THEN IF "status" \in DOMAIN outcome.raised
         THEN outcome.raised
         ELSE HTTPException(500, "Internal Server Error")
    ELSE Ok(outcome.returned)

\* the construction of a pydantic model: every required field must be given
Construct(required, kwargs) ==
    IF required \subseteq DOMAIN kwargs
    THEN Returned(kwargs)
    ELSE Raised([exception |-> "ValidationError", missing |-> required \ DOMAIN kwargs])

\* lines 163-182: the existence check and the validation of the id
RefusedArticle(coll, article) ==
    IF FindByArticleId(coll, article.id) # 0
    THEN Raised(HTTPExceptionAbout(400, "Article with id '{id}' already exists", article.id))
    ELSE IF article.id = <<>> \/ Len(Strip(article.id)) = 0
    THEN Raised(HTTPException(400, "Article ID cannot be empty"))
    ELSE IF Len(article.id) > ArticleIdLimit
    THEN Raised(HTTPException(400, "Article ID is too long (max 100 characters)"))
    ELSE Returned(TRUE)

create_article(article) ==
    /\ deployment = "articles"
    /\ \E current_time \in utcnow :
         LET article_dict == ("created_at" :> current_time) @@ ("updated_at" :> current_time)
                                 @@ article
             stored == ("_id" :> [oid |-> next_id]) @@ article_dict
             grown == Append(articles, stored)
             new_article == grown[FindById(grown, [oid |-> next_id])]
             rejected == RefusedArticle(articles, article)
         IN  /\ clock' = current_time
             /\ IF "raised" \in DOMAIN rejected
                THEN /\ Answer([op |-> "create_article", article |-> article], Unhandled(rejected))
                     /\ UNCHANGED <<articles, next_id>>
                ELSE /\ articles' = grown
                     /\ next_id' = next_id + 1
                     /\ Answer([op |-> "create_article", article |-> article],
                               Ok(ResponseModel(ArticleResponseFields,
                                                article_helper(new_article, current_time))))
    /\ UNCHANGED <<items, deployment, users, indexes>>

get_article_by_id(article_id) ==
    /\ deployment = "articles"
    /\ \E now \in utcnow :
         LET i == FindByArticleId(articles, article_id)
             outcome ==
                 IF i = 0
                 THEN Raised(HTTPExceptionAbout(404, "Article with id '{id}' not found", article_id))
                 ELSE Returned(ResponseModel(ArticleResponseFields, article_helper(articles[i], now)))
         IN  /\ clock' = now
             /\ Answer([op |-> "get_article_by_id", article_id |-> article_id], Unhandled(outcome))
    /\ UNCHANGED <<items, articles, next_id, deployment, users, indexes>>

\* get_articles: the envelope is built from articles and total alone
get_articles(theme, search) ==
    /\ deployment = "articles"
    /\ \E now \in utcnow :
         LET filters == [theme |-> theme, language |-> None, search |-> search]
             query == build_search_query(filters)
             matching == Find(articles, LAMBDA doc : MatchesArticleQuery(query, doc))
             total == Len(matching)
             cursor == SortCreatedDesc(matching)
             found == [i \in DOMAIN cursor |->
                          ResponseModel(ArticleSummaryFields, article_summary_helper(cursor[i], now))]
             outcome == Construct(ArticleListResponseFields, [articles |-> found, total |-> total])
         IN  /\ clock' = now
             /\ Answer([op |-> "get_articles", theme |-> theme, search |-> search],
                       Unhandled(outcome))
    /\ UNCHANGED <<items, articles, next_id, deployment, users, indexes>>

search_articles(q, language, limit) ==
    /\ deployment = "articles"
    /\ \E now \in utcnow :
         LET query == SearchArticlesQuery(q, language)
             matching == Find(articles, LAMBDA doc : MatchesArticleQuery(query, doc))
             cursor == Page(SortCreatedDesc(matching), 0, limit)
             found == [i \in DOMAIN cursor |->
                          ResponseModel(ArticleSummaryFields, article_summary_helper(cursor[i], now))]
         IN  /\ clock' = now
             /\ Answer([op |-> "search_articles", q |-> q, language |-> language, limit |-> limit],
                       Ok(found))
    /\ UNCHANGED <<items, articles, next_id, deployment, users, indexes>>

----------------------------------------------------------------------------
(* The users of the item service: enhanced_main.create_user                *)

UserResponseFields ==
    {"id", "username", "email", "full_name", "role", "is_active", "created_at", "updated_at"}

\* a pre-check on the username alone
UsernameTaken(coll, user) ==
    Positions(coll, LAMBDA doc : FieldEquals(doc, "username", user.username)) # {}

\* lines 267-272: find_one({"$or": [{"username": ...}, {"email": ...}]}) finds a document
UserKeyTaken(coll, user) ==
    Positions(coll, LAMBDA doc : \/ FieldEquals(doc, "username", user.username)
                                 \/ FieldEquals(doc, "email", user.email)) # {}

\* the insert of a document would break a unique index the database holds
BreaksUniqueIndex(coll, name, doc) ==
    \E key \in DOMAIN doc :
        /\ (name \o "." \o key) \in indexes
        /\ Positions(coll, LAMBDA other : FieldEquals(other, key, doc[key])) # {}

\* pymongo.errors.DuplicateKeyError
DuplicateKeyError == [exception |-> "DuplicateKeyError"]

\* create_user has no try block: what it raises is answered by the framework
create_user(user) ==
    /\ deployment = "items"
    /\ \E created_at \in utcnow :
       \E updated_at \in {created_at, Min(created_at + 1, MaxClock)} :
         LET user_dict == user @@ ("created_at" :> created_at) @@ ("updated_at" :> updated_at)
             stored == ("_id" :> [oid |-> next_id]) @@ user_dict
             grown == Append(users, stored)
             new_user == grown[FindById(grown, [oid |-> next_id])]
             outcome ==
                 IF UserKeyTaken(users, user)
                 THEN Raised(HTTPException(400, "Username or email already exists"))
                 ELSE IF BreaksUniqueIndex(users, "users", user_dict)
                 THEN Raised(DuplicateKeyError)
                 ELSE Returned(ResponseModel(UserResponseFields, user_helper(new_user, updated_at)))
         IN  /\ clock' = IF UserKeyTaken(users, user) THEN clock ELSE updated_at
             /\ users' = IF "raised" \in DOMAIN outcome THEN users ELSE grown
             /\ next_id' = IF "raised" \in DOMAIN outcome THEN next_id ELSE next_id + 1
             /\ Answer([op |-> "create_user", user |-> user], Unhandled(outcome))
    /\ UNCHANGED <<items, articles, deployment, indexes>>

----------------------------------------------------------------------------
(* article_main.update_article and article_main.upload_articles_from_json  *)

\* lines 268-275: `except HTTPException: raise`, any other exception is answered 500
ExceptErrorUpdating(outcome) ==
    IF "raised" \in DOMAIN outcome
    THEN IF "status" \in DOMAIN outcome.raised
         THEN outcome.raised
         ELSE HTTPException(500, "Error updating article")
    ELSE Ok(outcome.returned)

\* lines 220-241: the checks of update_article on the id of the body
RefusedUpdate(coll, article_id, article) ==
    IF article.id # article_id /\ FindByArticleId(coll, article.id) # 0
    THEN Raised(HTTPExceptionAbout(400, "Article with id '{id}' already exists", article.id))
    ELSE IF article.id = <<>> \/ Len(Strip(article.id)) = 0
    THEN Raised(HTTPException(400, "Article ID cannot be empty"))
    ELSE IF Len(article.id) > ArticleIdLimit
    THEN Raised(HTTPException(400, "Article ID is too long (max 100 characters)"))
    ELSE Returned(TRUE)

\* a created_at taken from the clock of the update instead of the stored document
StampedCreatedAt(existing_article, current_time) == current_time

\* line 247: created_at is carried over from the stored document
KeptCreatedAt(existing_article, current_time) ==
    Get(existing_article, "created_at", current_time)

update_article(article_id, article) ==
    /\ deployment = "articles"
    /\ LET i == FindByArticleId(articles, article_id)
           req == [op |-> "update_article", article_id |-> article_id, article |-> article]
       IN  IF i = 0
           THEN /\ Answer(req, HTTPExceptionAbout(404, "Article with id '{id}' not found", article_id))
                /\ UNCHANGED <<articles, clock>>
           ELSE IF "raised" \in DOMAIN RefusedUpdate(articles, article_id, article)
           THEN /\ Answer(req, Unhandled(RefusedUpdate(articles, article_id, article)))
                /\ UNCHANGED <<articles, clock>>
           ELSE \E current_time \in utcnow :
                  LET existing_article == articles[i]
                      article_dict ==
                          ("updated_at" :> current_time)
                              @@ ("created_at" :> KeptCreatedAt(existing_article, current_time))
                              @@ article
                      replacement == ("_id" :> existing_article["_id"]) @@ article_dict
                      modified_count == IF replacement = existing_article THEN 0 ELSE 1
                      replaced == [articles EXCEPT ![i] = replacement]
                      outcome ==
                          IF modified_count = 0
                          THEN Raised(HTTPExceptionAbout(404, "Article with id '{id}' not found",
                                                         article_id))
                          ELSE Returned(ResponseModel(ArticleResponseFields,
                                   article_helper(replaced[FindByArticleId(replaced, article.id)],
                                                  current_time)))
                  IN  /\ articles' = replaced
                      /\ clock' = current_time
                      /\ Answer(req, ExceptErrorUpdating(outcome))
    /\ UNCHANGED <<items, next_id, deployment, users, indexes>>

\* content.json as open() and json.load() find it: missing, not JSON, or a JSON value
FileMissing == [kind |-> "missing"]

FileInvalid == [kind |-> "invalid"]

FileHolding(data) == [kind |-> "json", data |-> data]

\* a JSON value that is not an object has no .get
IsObject(value) == "scalar" \notin DOMAIN value

\* lines 384-391: the document built for an entry of pages
UploadedArticle(article_data, current_time) ==
    [id |-> Get(article_data, "id", <<>>),
     title |-> Get(article_data, "title", [tamil |-> <<>>, english |-> <<>>]),
     theme |-> Get(article_data, "theme", "gray"),
     content |-> Get(article_data, "content", [tamil |-> <<>>, english |-> <<>>]),
     created_at |-> current_time,
     updated_at |-> current_time]

\* the position of the first document whose id an earlier document has; 0 if none
FirstClash(docs) ==
    LET clashes == {j \in DOMAIN docs : \E i \in 1..(j - 1) : docs[i].id = docs[j].id}
    IN  IF clashes = {} THEN 0 ELSE First(clashes)

\* insert_many into the emptied collection, in order: under the unique index
\* the documents before the first clash are inserted and the call raises
InsertMany(docs) ==
    IF ArticleIdIndex \in indexes /\ FirstClash(docs) # 0
    THEN SubSeq(docs, 1, FirstClash(docs) - 1)
    ELSE docs

\* lines 413-418: the three except clauses of upload_articles_from_json
ExceptUpload(outcome) ==
    IF "raised" \notin DOMAIN outcome THEN Ok(outcome.returned)
    ELSE IF outcome.raised = [exception |-> "FileNotFoundError"]
    THEN HTTPException(404, "content.json file not found")
    ELSE IF outcome.raised = [exception |-> "JSONDecodeError"]
    THEN HTTPException(400, "Invalid JSON format in content.json")
    ELSE HTTPException(500, "Error uploading articles")

upload_articles_from_json(file) ==
    /\ deployment = "articles"
    /\ LET req == [op |-> "upload_articles_from_json", file |-> file]
           data == file.data
           articles_data == Get(data, "pages", <<>>)
       IN  IF file.kind = "missing"
           THEN /\ Answer(req, ExceptUpload(Raised([exception |-> "FileNotFoundError"])))
                /\ UNCHANGED <<articles, indexes, next_id, clock>>
           ELSE IF file.kind = "invalid"
           THEN /\ Answer(req, ExceptUpload(Raised([exception |-> "JSONDecodeError"])))
                /\ UNCHANGED <<articles, indexes, next_id, clock>>
           ELSE IF ~IsObject(data)
           THEN /\ Answer(req, ExceptUpload(Raised([exception |-> "AttributeError"])))
                /\ UNCHANGED <<articles, indexes, next_id, clock>>
           ELSE IF articles_data = <<>>
           THEN /\ Answer(req, ExceptUpload(Raised(
                        HTTPException(400, "No articles found in content.json"))))
                /\ UNCHANGED <<articles, indexes, next_id, clock>>
           ELSE \E current_time \in utcnow :
                  LET built == [n \in DOMAIN articles_data |->
                                   ("_id" :> [oid |-> next_id + n - 1])
                                       @@ UploadedArticle(articles_data[n], current_time)]
                      inserted == InsertMany(built)
                  IN  /\ clock' = current_time
                      /\ IF \E n \in DOMAIN articles_data : ~IsObject(articles_data[n])
                         THEN \* delete_many has run, the loop raises before insert_many
                              /\ articles' = <<>>
                              /\ UNCHANGED <<indexes, next_id>>
                              /\ Answer(req, ExceptUpload(Raised([exception |-> "AttributeError"])))
                         ELSE /\ articles' = inserted
                              /\ next_id' = next_id + Len(built)
                              /\ IF inserted # built
                                 THEN /\ UNCHANGED indexes
                                      /\ Answer(req, ExceptUpload(Raised(
                                              [exception |-> "BulkWriteError"])))
                                 ELSE IF FirstClash(built) # 0
                                 THEN \* create_index("id", unique=True) finds the duplicates
                                      /\ UNCHANGED indexes
                                      /\ Answer(req, ExceptUpload(Raised(DuplicateKeyError)))
                                 ELSE /\ indexes' = indexes \cup {ArticleIdIndex}
                                      /\ Answer(req, Ok(
                                              [message |-> "Articles uploaded successfully",
                                               uploaded_count |-> Len(inserted),
                                               articles |-> [n \in DOMAIN built |-> built[n].id]]))
    /\ UNCHANGED <<items, deployment, users>>

----------------------------------------------------------------------------
(* The services under the requests of their callers                        *)

ItemA ==
    [name |-> <<"x">>, description |-> None, price |-> 1, quantity |-> 0,
     category |-> "other", tags |-> <<>>, is_active |-> TRUE]

ItemB ==
    [name |-> <<"X", "y">>, description |-> Some(<<"y">>), price |-> 2, quantity |-> 1,
     category |-> "books", tags |-> <<"t1">>, is_active |-> FALSE]

\* models.Item records
NewItems == {ItemA, ItemB}

\* main.Item records
MainItems == {[name |-> <<"y">>, description |-> None, price |-> 1, quantity |-> 1]}

NoUpdate ==
    [name |-> None, description |-> None, price |-> None, quantity |-> None,
     category |-> None, tags |-> None, is_active |-> None]

\* the update that sets one field
Setting(key, value) == [NoUpdate EXCEPT ![key] = Some(value)]

NoFilter ==
    [category |-> None, is_active |-> None, min_price |-> None, max_price |-> None,
     tags |-> None, search |-> None]

\* the strings sent as item_id: the ids the store may assign, and one that is no ObjectId
ItemIds == {[hex |-> n] : n \in 1..MaxItems} \cup {[text |-> "abc"]}

ArticleA ==
    [id |-> <<"a">>, title |-> [tamil |-> <<"y">>, english |-> <<"X", "y">>], theme |-> "gray",
     content |-> [tamil |-> <<[type |-> "scripture", value |-> <<"y">>],
                              [type |-> "mainText", value |-> <<"x", " ", "y">>]>>,
                  english |-> <<>>],
     created_at |-> None, updated_at |-> None]

ArticleB ==
    [id |-> <<"b">>, title |-> [tamil |-> <<>>, english |-> <<"x">>], theme |-> "warm",
     content |-> [tamil |-> <<>>,
                  english |-> <<[type |-> "reflection", value |-> <<"x">>]>>],
     created_at |-> None, updated_at |-> None]

\* article_models.Article records, two of them with an id create_article refuses
NewArticles ==
    {ArticleA, ArticleB,
     [ArticleB EXCEPT !.id = <<" ">>],
     [ArticleB EXCEPT !.id = [i \in 1..(ArticleIdLimit + 1) |-> "a"]]}

ArticleIds == {<<"a">>, <<"b">>, <<"s", "e", "a", "r", "c", "h">>}

\* the service keeps serving; the function-call variables are not its state
Serving == pc = "serving" /\ UNCHANGED <<pc, args, result>>

\* the collection may still be given a document
Room == next_id <= MaxItems

Init ==
    /\ pc = "serving"
    /\ args = None
    /\ result = None
    /\ deployment \in {"items", "articles"}
    /\ items = <<>>
    /\ articles = <<>>
    /\ users = <<>>
    /\ indexes = StartupIndexes
    /\ next_id = 1
    /\ clock = 1
    /\ request = [op |-> "none"]
    /\ response = [op |-> "none"]

MainCreateItem == Serving /\ Room /\ \E item \in MainItems : main_create_item(item)

CreateItem == Serving /\ Room /\ \E item \in NewItems : create_item(item)

GetItems ==
    Serving /\ \E skip \in {0, 1}, limit \in {1},
                  filters \in {NoFilter, [NoFilter EXCEPT !.is_active = Some(TRUE)]} :
                  get_items(skip, limit, filters)

SearchItems == Serving /\ \E q \in {<<"x">>, <<"y">>}, limit \in {1} : search_items(q, limit)

GetItem == Serving /\ \E item_id \in ItemIds : get_item(item_id)

UpdateItem ==
    Serving /\ \E item_id \in ItemIds,
                  item_update \in {NoUpdate, Setting("is_active", FALSE), Setting("price", 2)} :
                  update_item(item_id, item_update)

DeleteItem == Serving /\ \E item_id \in ItemIds : delete_item(item_id)

CreateArticle == Serving /\ Room /\ \E article \in NewArticles : create_article(article)

GetArticleById == Serving /\ \E article_id \in ArticleIds : get_article_by_id(article_id)

GetArticles ==
    Serving /\ \E theme \in {None, Some("gray")}, search \in {None, Some(<<"x">>)} :
                  get_articles(theme, search)

SearchArticles ==
    Serving /\ \E q \in {<<"x">>, <<"y">>}, language \in Opt(Languages), limit \in {1, 2} :
                  search_articles(q, language, limit)

\* an entry that names no id
PageNoId == ("title" :> [tamil |-> <<"y">>, english |-> <<"x">>]) @@ ("theme" :> "blue")

\* models.User records
NewUsers ==
    {[username |-> <<"a", "n", "n">>, email |-> <<"a">>, full_name |-> None, role |-> "user",
      is_active |-> TRUE],
     [username |-> <<"a", "n", "n">>, email |-> <<"b">>, full_name |-> Some(<<"y">>),
      role |-> "admin", is_active |-> FALSE]}

CreateUser == Serving /\ Room /\ \E user \in NewUsers : create_user(user)

UpdateArticle ==
    Serving /\ \E article_id \in ArticleIds, article \in NewArticles :
                  update_article(article_id, article)

\* the states of content.json at the uploads
UploadedFiles ==
    {FileMissing, FileInvalid}
        \cup {FileHolding("pages" :> pages) :
                 pages \in {<<>>, <<ArticleA>>, <<PageNoId>>, <<ArticleA, ArticleA>>}}

\* the ids the store may still assign suffice for the entries of the file
RoomFor(file) == file.kind = "json" => next_id + Len(file.data["pages"]) <= MaxItems + 1

UploadArticles ==
    Serving /\ \E file \in UploadedFiles : RoomFor(file) /\ upload_articles_from_json(file)

Next ==
    \/ MainCreateItem
    \/ CreateItem
    \/ GetItems
    \/ SearchItems
    \/ GetItem
    \/ UpdateItem
    \/ DeleteItem
    \/ CreateArticle
    \/ GetArticleById
    \/ GetArticles
    \/ SearchArticles
    \/ CreateUser
    \/ UpdateArticle
    \/ UploadArticles

Spec == Init /\ [][Next]_vars

----------------------------------------------------------------------------
(* One request to the item service holding drawn documents                 *)

MaxStored == 3       \* most documents of a drawn collection
MaxSkip == 2         \* largest skip drawn
MaxLimit == 2        \* largest limit drawn

\* the document create_item stores for an Item, main.create_item for a main.Item
StoredItem(item, n, now) ==
    IF "is_active" \in DOMAIN item
    THEN ("_id" :> [oid |-> n]) @@ item @@ ("created_at" :> now) @@ ("updated_at" :> now)
    ELSE ("_id" :> [oid |-> n]) @@ item

\* the collections n <= MaxStored creations leave, the clock advancing with each
ItemStores ==
    {[i \in 1..Len(made) |-> StoredItem(made[i], i, Min(i, MaxClock))] :
        made \in SeqsUpTo(NewItems \cup MainItems, MaxStored)}

\* ItemFilter records as get_items builds them from its query parameters
ListingFilters ==
    {NoFilter,
     [NoFilter EXCEPT !.is_active = Some(TRUE)],
     [NoFilter EXCEPT !.is_active = Some(FALSE)],
     [NoFilter EXCEPT !.category = Some("other")],
     [NoFilter EXCEPT !.min_price = Some(2)],
     [NoFilter EXCEPT !.max_price = Some(1), !.tags = Some(<<"t1", "t2">>)],
     [NoFilter EXCEPT !.search = Some(<<"x">>)]}

\* ItemUpdate records: none, each one, and two of the fields set
PatchUpdates ==
    {NoUpdate,
     Setting("name", <<"y">>), Setting("description", <<"x">>), Setting("price", 2),
     Setting("quantity", 1), Setting("category", "home"), Setting("tags", <<"t2">>),
     Setting("is_active", FALSE),
     [NoUpdate EXCEPT !.price = Some(1), !.is_active = Some(TRUE)]}

\* args remembers the collection as it was before the request
InitItemRequest ==
    /\ pc = "start"
    /\ deployment = "items"
    /\ items \in {store \in ItemStores : TRUE}
    /\ args = [items |-> items]
    /\ result = None
    /\ articles = <<>>
    /\ users = <<>>
    /\ indexes = StartupIndexes
    /\ next_id = Len(items) + 1
    /\ clock = IF items = <<>> THEN 1 ELSE Min(Len(items), MaxClock)
    /\ request = [op |-> "none"]
    /\ response = [op |-> "none"]

Once == pc = "start" /\ pc' = "done" /\ UNCHANGED <<args, result>>

RequestGetItems ==
    Once /\ \E skip \in 0..MaxSkip, limit \in 1..MaxLimit, filters \in ListingFilters :
                get_items(skip, limit, filters)

RequestUpdateItem ==
    Once /\ \E n \in 1..(MaxStored + 1), item_update \in PatchUpdates :
                update_item([hex |-> n], item_update)

NextItemRequest == RequestGetItems \/ RequestUpdateItem

SpecItemRequest == InitItemRequest /\ [][NextItemRequest]_vars

----------------------------------------------------------------------------
(* A record is created and then read back by its identifier               *)

\* models.Item records
RoundTripItems ==
    [name : {<<"x">>, <<"X", "y">>}, description : Opt({<<"y">>}), price : 1..MaxPrice,
     quantity : {0, 1}, category : SomeCategories, tags : {<<>>, <<"t1", "t2">>},
     is_active : BOOLEAN]

\* article_models.Article records; the timestamps a caller sends are optional
RoundTripArticles ==
    [id : {<<"a">>, <<"b">>, <<" ", "a">>, <<" ">>, <<>>},
     title : {[tamil |-> <<"y">>, english |-> <<"x">>]},
     theme : {"gray", "blue"},
     content : [tamil : SeqsUpTo(SearchedBlocks, MaxContentBlocks),
                english : {<<>>, <<[type |-> "scripture", value |-> <<"x", " ", "y">>]>>}],
     created_at : Opt({MaxClock}),
     updated_at : {None}]

\* the document create_article stores for an Article
StoredArticle(article, n, now) ==
    ("_id" :> [oid |-> n]) @@ ("created_at" :> now) @@ ("updated_at" :> now) @@ article

\* the collections that creations of ArticleA and ArticleB leave
ArticleStores ==
    {<<>>,
     <<StoredArticle(ArticleA, 1, 1)>>,
     <<StoredArticle(ArticleB, 1, 1), StoredArticle(ArticleA, 2, Min(2, MaxClock))>>}

InitRoundTrip ==
    /\ pc = "create"
    /\ args = None
    /\ result = None
    /\ deployment \in {"items", "articles"}
    /\ items \in {store \in ItemStores : deployment = "items" /\ Len(store) < MaxStored}
                 \cup {<<>>}
    /\ articles \in {store \in ArticleStores : deployment = "articles"} \cup {<<>>}
    /\ users = <<>>
    /\ indexes = StartupIndexes
    /\ next_id = Len(items) + Len(articles) + 1
    /\ clock = IF Len(items) + Len(articles) = 0 THEN 1
               ELSE Min(Len(items) + Len(articles), MaxClock)
    /\ request = [op |-> "none"]
    /\ response = [op |-> "none"]

\* POST /items/ with a record; args remembers what was sent
RoundTripCreateItem ==
    /\ pc = "create"
    /\ \E item \in RoundTripItems :
           /\ create_item(item)
           /\ args' = [created |-> item]
    /\ pc' = "get"
    /\ UNCHANGED result

\* GET /items/{id} with the id the creation answered
RoundTripGetItem ==
    /\ pc = "get"
    /\ get_item(response.body.id)
    /\ pc' = "done"
    /\ UNCHANGED <<args, result>>

\* POST /articles/ with a record; one that is refused is not read back
RoundTripCreateArticle ==
    /\ pc = "create"
    /\ \E article \in RoundTripArticles :
           /\ create_article(article)
           /\ args' = [created |-> article]
    /\ pc' = IF response'.status = 200 THEN "get" ELSE "refused"
    /\ UNCHANGED result

\* GET /articles/{article_id} with the id of the record
RoundTripGetArticle ==
    /\ pc = "get"
    /\ get_article_by_id(args.created.id)
    /\ pc' = "done"
    /\ UNCHANGED <<args, result>>

NextRoundTrip ==
    \/ RoundTripCreateItem
    \/ RoundTripGetItem
    \/ RoundTripCreateArticle
    \/ RoundTripGetArticle

SpecRoundTrip == InitRoundTrip /\ [][NextRoundTrip]_vars

----------------------------------------------------------------------------
(* Two creations with the same unique key, one after the other             *)

\* models.User records
ConflictUsers ==
    [username : {<<"a", "n", "n">>, <<"b", "o", "b">>}, email : {<<"a">>, <<"b">>},
     full_name : Opt({<<"y">>}), role : {"user", "admin"}, is_active : BOOLEAN]

\* article_models.Article records with an id create_article accepts
ConflictArticles ==
    [id : {<<"a">>, <<"b">>, <<" ", "a">>},
     title : {[tamil |-> <<"y">>, english |-> <<"x">>]},
     theme : {"gray", "blue"},
     content : [tamil : {<<>>}, english : {<<>>, <<[type |-> "mainText", value |-> <<"x">>]>>}],
     created_at : {None},
     updated_at : {None}]

InitConflict ==
    /\ pc = "first"
    /\ args = None
    /\ result = None
    /\ deployment \in {"items", "articles"}
    /\ items = <<>>
    /\ articles \in {store \in ArticleStores : deployment = "articles"} \cup {<<>>}
    /\ users = <<>>
    /\ indexes = StartupIndexes
    /\ next_id = Len(articles) + 1
    /\ clock = IF articles = <<>> THEN 1 ELSE Min(Len(articles), MaxClock)
    /\ request = [op |-> "none"]
    /\ response = [op |-> "none"]

\* the first request; args remembers the record sent and the collection it left
FirstCreateArticle ==
    /\ pc = "first"
    /\ \E article \in ConflictArticles :
           /\ FindByArticleId(articles, article.id) = 0
           /\ create_article(article)
           /\ args' = [first |-> article, stored |-> articles']
    /\ pc' = "second"
    /\ UNCHANGED result

\* the second request carries the id of the first, and any other fields
SecondCreateArticle ==
    /\ pc = "second"
    /\ deployment = "articles"
    /\ \E article \in ConflictArticles :
           /\ article.id = args.first.id
           /\ create_article(article)
    /\ pc' = "done"
    /\ UNCHANGED <<args, result>>

FirstCreateUser ==
    /\ pc = "first"
    /\ \E user \in ConflictUsers :
           /\ create_user(user)
           /\ args' = [first |-> user, stored |-> users']
    /\ pc' = "second"
    /\ UNCHANGED result

\* the second request carries the username or the email of the first
SecondCreateUser ==
    /\ pc = "second"
    /\ deployment = "items"
    /\ \E user \in ConflictUsers :
           /\ user.username = args.first.username \/ user.email = args.first.email
           /\ create_user(user)
    /\ pc' = "done"
    /\ UNCHANGED <<args, result>>

NextConflict ==
    \/ FirstCreateArticle
    \/ SecondCreateArticle
    \/ FirstCreateUser
    \/ SecondCreateUser

SpecConflict == InitConflict /\ [][NextConflict]_vars

----------------------------------------------------------------------------
(* Two creations with the same unique key, running concurrently            *)
(* Each handler is a coroutine: it is suspended at every await, and the    *)
(* other request may run between its existence check and its insert.       *)

Requests == {1, 2}

\* lines 197-205: an exception of the insert is answered with status 500
ExceptErrorCreating(outcome) ==
    IF "raised" \in DOMAIN outcome
    THEN HTTPException(500, "Error creating article")
    ELSE Ok(outcome.returned)

InitRace ==
    /\ pc = [p \in Requests |-> "check"]
    /\ result = None
    /\ deployment \in {"items", "articles"}
    /\ items = <<>>
    /\ articles \in {store \in ArticleStores : deployment = "articles"} \cup {<<>>}
    /\ users = <<>>
    /\ indexes \in {StartupIndexes} \cup
                   {StartupIndexes \cup {ArticleIdIndex} : d \in {deployment} \ {"items"}}
    /\ \/ /\ deployment = "articles"
          /\ args \in {a \in [Requests -> ConflictArticles] : a[1].id = a[2].id}
       \/ /\ deployment = "items"
          /\ args \in {a \in [Requests -> ConflictUsers] :
                          a[1].username = a[2].username \/ a[1].email = a[2].email}
    /\ next_id = Len(articles) + 1
    /\ clock = IF articles = <<>> THEN 1 ELSE Min(Len(articles), MaxClock)
    /\ request = [p \in Requests |-> [op |-> "none"]]
    /\ response = [p \in Requests |-> [op |-> "none"]]

\* create_article up to the await of insert_one: lines 163-182
CheckArticle(p) ==
    /\ deployment = "articles"
    /\ pc[p] = "check"
    /\ LET rejected == RefusedArticle(articles, args[p]) IN
       IF "raised" \in DOMAIN rejected
       THEN /\ pc' = [pc EXCEPT ![p] = "done"]
            /\ request' = [request EXCEPT ![p] = [op |-> "create_article", article |-> args[p]]]
            /\ response' = [response EXCEPT ![p] = Unhandled(rejected)]
       ELSE /\ pc' = [pc EXCEPT ![p] = "insert"]
            /\ UNCHANGED <<request, response>>
    /\ UNCHANGED <<args, result, deployment, items, articles, users, indexes, next_id, clock>>

\* create_article from the insert on: lines 185-205
InsertArticle(p) ==
    /\ deployment = "articles"
    /\ pc[p] = "insert"
    /\ \E current_time \in utcnow :
         LET article_dict == ("created_at" :> current_time) @@ ("updated_at" :> current_time)
                                 @@ args[p]
             stored == ("_id" :> [oid |-> next_id]) @@ article_dict
             grown == Append(articles, stored)
             outcome ==
                 IF BreaksUniqueIndex(articles, "articles", article_dict)
                 THEN Raised(DuplicateKeyError)
                 ELSE Returned(ResponseModel(ArticleResponseFields,
                                            article_helper(grown[FindById(grown, [oid |-> next_id])],
                                                           current_time)))
         IN  /\ clock' = current_time
             /\ articles' = IF "raised" \in DOMAIN outcome THEN articles ELSE grown
             /\ next_id' = IF "raised" \in DOMAIN outcome THEN next_id ELSE next_id + 1
             /\ request' = [request EXCEPT ![p] = [op |-> "create_article", article |-> args[p]]]
             /\ response' = [response EXCEPT ![p] = ExceptErrorCreating(outcome)]
    /\ pc' = [pc EXCEPT ![p] = "done"]
    /\ UNCHANGED <<args, result, deployment, items, users, indexes>>

\* create_user up to the await of insert_one: lines 267-275
CheckUser(p) ==
    /\ deployment = "items"
    /\ pc[p] = "check"
    /\ IF UserKeyTaken(users, args[p])
       THEN /\ pc' = [pc EXCEPT ![p] = "done"]
            /\ request' = [request EXCEPT ![p] = [op |-> "create_user", user |-> args[p]]]
            /\ response' = [response EXCEPT ![p] =
                               HTTPException(400, "Username or email already exists")]
       ELSE /\ pc' = [pc EXCEPT ![p] = "insert"]
            /\ UNCHANGED <<request, response>>
    /\ UNCHANGED <<args, result, deployment, items, articles, users, indexes, next_id, clock>>

\* create_user from the insert on: lines 277-285
InsertUser(p) ==
    /\ deployment = "items"
    /\ pc[p] = "insert"
    /\ \E created_at \in utcnow :
       \E updated_at \in {created_at, Min(created_at + 1, MaxClock)} :
         LET user_dict == args[p] @@ ("created_at" :> created_at) @@ ("updated_at" :> updated_at)
             stored == ("_id" :> [oid |-> next_id]) @@ user_dict
             grown == Append(users, stored)
             outcome ==
                 IF BreaksUniqueIndex(users, "users", user_dict)
                 THEN Raised(DuplicateKeyError)
                 ELSE Returned(ResponseModel(UserResponseFields,
                                            user_helper(grown[FindById(grown, [oid |-> next_id])],
                                                        updated_at)))
         IN  /\ clock' = updated_at
             /\ users' = IF "raised" \in DOMAIN outcome THEN users ELSE grown
             /\ next_id' = IF "raised" \in DOMAIN outcome THEN next_id ELSE next_id + 1
             /\ request' = [request EXCEPT ![p] = [op |-> "create_user", user |-> args[p]]]
             /\ response' = [response EXCEPT ![p] = Unhandled(outcome)]
    /\ pc' = [pc EXCEPT ![p] = "done"]
    /\ UNCHANGED <<args, result, deployment, items, articles, indexes>>

NextRace ==
    \E p \in Requests :
        \/ CheckArticle(p)
        \/ InsertArticle(p)
        \/ CheckUser(p)
        \/ InsertUser(p)

SpecRace == InitRace /\ [][NextRace]_vars

----------------------------------------------------------------------------
(* One upload into a drawn collection                                      *)

PageA == ArticleA

\* an entry whose id is longer than create_article allows
PageLongId == ("id" :> [i \in 1..(ArticleIdLimit + 1) |-> "a"])

\* an entry that is a JSON string
PageString == [scalar |-> <<"x">>]

Pages == {PageA, ArticleB, PageNoId, PageLongId, PageString}

\* the states content.json may be in
Files ==
    {FileMissing, FileInvalid, FileHolding([scalar |-> <<"x">>]), FileHolding(EmptyDict)}
        \cup {FileHolding("pages" :> pages) : pages \in SeqsUpTo(Pages, 2)}

InitUpload ==
    /\ pc = "start"
    /\ deployment = "articles"
    /\ items = <<>>
    /\ articles \in ArticleStores
    /\ users = <<>>
    /\ indexes \in {StartupIndexes, StartupIndexes \cup {ArticleIdIndex}}
    /\ args = [articles |-> articles]
    /\ result = None
    /\ next_id = Len(articles) + 1
    /\ clock = IF articles = <<>> THEN 1 ELSE Min(Len(articles), MaxClock)
    /\ request = [op |-> "none"]
    /\ response = [op |-> "none"]

RequestUpload == Once /\ \E file \in Files : upload_articles_from_json(file)

NextUpload == RequestUpload

SpecUpload == InitUpload /\ [][NextUpload]_vars

----------------------------------------------------------------------------
(* One request while the store cannot be reached                           *)
(* Every call on the collection raises; each handler is followed up to the *)
(* response its except clauses make of the exception.                      *)

\* pymongo.errors.ServerSelectionTimeoutError, raised by the awaited store call
StoreUnreachable == [exception |-> "ServerSelectionTimeoutError"]

\* nothing is written and no time is read before the response
NothingStored == UNCHANGED <<deployment, items, articles, users, indexes, next_id, clock>>

\* enhanced_main.get_item, lines 214-220: ObjectId(item_id) is evaluated before find_one is called
get_item_unreachable(item_id) ==
    /\ deployment = "items"
    /\ LET outcome == IF ~ObjectIdValid(item_id) THEN Raised(InvalidId)
                      ELSE Raised(StoreUnreachable)
       IN  Answer([op |-> "get_item", item_id |-> item_id], ExceptInvalidItemId(outcome))
    /\ NothingStored

\* enhanced_main.update_item, lines 227-246
update_item_unreachable(item_id, item_update) ==
    /\ deployment = "items"
    /\ LET outcome ==
               IF UpdateData(item_update) = EmptyDict
               THEN Raised(HTTPException(400, "No fields to update"))
               ELSE IF ~ObjectIdValid(item_id) THEN Raised(InvalidId)
               ELSE Raised(StoreUnreachable)
       IN  Answer([op |-> "update_item", item_id |-> item_id, item_update |-> item_update],
                  ExceptInvalidItemId(outcome))
    /\ UNCHANGED <<deployment, items, articles, users, indexes, next_id>>
    /\ clock' \in IF UpdateData(item_update) = EmptyDict THEN {clock} ELSE utcnow

\* enhanced_main.delete_item, lines 253-259
delete_item_unreachable(item_id) ==
    /\ deployment = "items"
    /\ LET outcome == IF ~ObjectIdValid(item_id) THEN Raised(InvalidId)
                      ELSE Raised(StoreUnreachable)
       IN  Answer([op |-> "delete_item", item_id |-> item_id], ExceptInvalidItemId(outcome))
    /\ NothingStored

\* enhanced_main.health_check, lines 120-130
ExceptConnectionFailed(outcome) ==
    IF "raised" \in DOMAIN outcome
    THEN HTTPException(500, "Database connection failed")
    ELSE Ok(outcome.returned)

health_check_unreachable ==
    /\ Answer([op |-> "health_check"], ExceptConnectionFailed(Raised(StoreUnreachable)))
    /\ NothingStored

\* article_main.create_article: find_one at line 164 is outside the try block
create_article_unreachable(article) ==
    /\ deployment = "articles"
    /\ Answer([op |-> "create_article", article |-> article], Unhandled(Raised(StoreUnreachable)))
    /\ NothingStored

\* article_main.update_article: find_one at line 213 is outside the try block
update_article_unreachable(article_id, article) ==
    /\ deployment = "articles"
    /\ Answer([op |-> "update_article", article_id |-> article_id, article |-> article],
              Unhandled(Raised(StoreUnreachable)))
    /\ NothingStored

InitOutage ==
    /\ pc = "start"
    /\ deployment \in {"items", "articles"}
    /\ items \in {store \in ItemStores : deployment = "items"} \cup {<<>>}
    /\ articles \in {store \in ArticleStores : deployment = "articles"} \cup {<<>>}
    /\ users = <<>>
    /\ indexes = StartupIndexes
    /\ args = [items |-> items, articles |-> articles]
    /\ result = None
    /\ next_id = Len(items) + Len(articles) + 1
    /\ clock = IF Len(items) + Len(articles) = 0 THEN 1
               ELSE Min(Len(items) + Len(articles), MaxClock)
    /\ request = [op |-> "none"]
    /\ response = [op |-> "none"]

\* the strings sent as item_id: well-formed ones and one that is no ObjectId
OutageItemIds == {[hex |-> n] : n \in 1..(MaxStored + 1)} \cup {[text |-> "abc"]}

OutageGetItem == Once /\ \E item_id \in OutageItemIds : get_item_unreachable(item_id)

OutageUpdateItem ==
    Once /\ \E item_id \in OutageItemIds, item_update \in PatchUpdates :
                update_item_unreachable(item_id, item_update)

OutageDeleteItem == Once /\ \E item_id \in OutageItemIds : delete_item_unreachable(item_id)

OutageHealthCheck == Once /\ health_check_unreachable

OutageCreateArticle == Once /\ \E article \in NewArticles : create_article_unreachable(article)

OutageUpdateArticle ==
    Once /\ \E article_id \in ArticleIds, article \in NewArticles :
                update_article_unreachable(article_id, article)

NextOutage ==
    \/ OutageGetItem
    \/ OutageUpdateItem
    \/ OutageDeleteItem
    \/ OutageHealthCheck
    \/ OutageCreateArticle
    \/ OutageUpdateArticle

SpecOutage == InitOutage /\ [][NextOutage]_vars

----------------------------------------------------------------------------
(* The dispatch of a GET request to the handler registered for its path    *)
(* A path is the sequence of its segments, "/articles/" being              *)
(* <<"articles", "">>.  The router tries the routes in the order in which  *)
(* the decorators registered them and calls the first whose path matches.  *)

Lit(segment) == [lit |-> segment]

Param(name) == [param |-> name]

\* a path parameter matches any non-empty segment; a literal matches itself
SegmentMatches(pattern, segment) ==
    IF "param" \in DOMAIN pattern THEN segment # "" ELSE pattern.lit = segment

PathMatches(pattern, path) ==
    /\ Len(pattern) = Len(path)
    /\ \A i \in DOMAIN pattern : SegmentMatches(pattern[i], path[i])

\* the GET routes of article_main under /articles, in the order of lines 277, 305, 316, 420
ArticleRoutes ==
    <<[path |-> <<Lit("articles"), Lit("")>>, endpoint |-> "get_articles"],
      [path |-> <<Lit("articles"), Param("article_id")>>, endpoint |-> "get_article_by_id"],
      [path |-> <<Lit("articles"), Lit("search")>>, endpoint |-> "search_articles"],
      [path |-> <<Lit("articles"), Lit("themes"), Lit("")>>, endpoint |-> "get_available_themes"]>>

\* the GET routes of enhanced_main under /items, in the order of lines 147, 190, 209
ItemRoutes ==
    <<[path |-> <<Lit("items"), Lit("")>>, endpoint |-> "get_items"],
      [path |-> <<Lit("items"), Lit("search")>>, endpoint |-> "search_items"],
      [path |-> <<Lit("items"), Param("item_id")>>, endpoint |-> "get_item"]>>

\* the endpoint of the first route that matches, "not_found" if none does
Dispatch(routes, path) ==
    LET hits == {i \in DOMAIN routes : PathMatches(routes[i].path, path)}
    IN  IF hits = {} THEN "not_found" ELSE routes[First(hits)].endpoint

\* the text of a path segment, as the handler receives it in article_id
Chars ==
    ("search" :> <<"s", "e", "a", "r", "c", "h">>) @@ ("a" :> <<"a">>) @@ ("b" :> <<"b">>)

\* the segments that are the 24 hex digits of an ObjectId, with the ObjectId each one is
HexStrings == ("1" :> 1) @@ ("2" :> 2)

\* the item_id a segment is: an ObjectId string, or a string that is none
ItemIdOf(segment) ==
    IF segment \in DOMAIN HexStrings THEN [hex |-> HexStrings[segment]] ELSE [text |-> segment]

\* the default of the limit parameter of both search handlers
DefaultLimit == 10

\* the answer of the router to a path no route matches
NotFound ==
    /\ Answer([op |-> "not_found"], HTTPException(404, "Not Found"))
    /\ UNCHANGED <<deployment, items, articles, users, indexes, next_id, clock>>

InitRouting ==
    /\ pc = "start"
    /\ args = None
    /\ result = None
    /\ deployment \in {"items", "articles"}
    /\ items \in {store \in ItemStores : deployment = "items"} \cup {<<>>}
    /\ articles \in {store \in ArticleStores : deployment = "articles"} \cup {<<>>}
    /\ users = <<>>
    /\ indexes = StartupIndexes
    /\ next_id = Len(items) + Len(articles) + 1
    /\ clock = IF Len(items) + Len(articles) = 0 THEN 1
               ELSE Min(Len(items) + Len(articles), MaxClock)
    /\ request = [op |-> "none"]
    /\ response = [op |-> "none"]

\* GET path?q=... to article_main; args remembers the request as it was sent
RouteGetArticles ==
    /\ pc = "start"
    /\ deployment = "articles"
    /\ \E path \in {<<"articles", "">>, <<"articles", "search">>, <<"articles", "a">>,
                    <<"articles", "b">>, <<"articles", "a", "b">>},
          q \in {<<"x">>, <<"y">>} :
           /\ args' = [method |-> "GET", path |-> path, q |-> q]
           /\ LET endpoint == Dispatch(ArticleRoutes, path) IN
              CASE endpoint = "get_articles" -> get_articles(None, None)
                [] endpoint = "get_article_by_id" -> get_article_by_id(Chars[path[2]])
                [] endpoint = "search_articles" -> search_articles(q, None, DefaultLimit)
                [] OTHER -> NotFound
    /\ pc' = "done"
    /\ UNCHANGED result

\* GET path?q=... to enhanced_main
RouteGetItems ==
    /\ pc = "start"
    /\ deployment = "items"
    /\ \E path \in {<<"items", "">>, <<"items", "search">>, <<"items", "1">>,
                    <<"items", "2">>, <<"items", "abc">>, <<"items", "1", "2">>},
          q \in {<<"x">>, <<"y">>} :
           /\ args' = [method |-> "GET", path |-> path, q |-> q]
           /\ LET endpoint == Dispatch(ItemRoutes, path) IN
              CASE endpoint = "get_items" -> get_items(0, DefaultLimit, NoFilter)
                [] endpoint = "search_items" -> search_items(q, DefaultLimit)
                [] endpoint = "get_item" -> get_item(ItemIdOf(path[2]))
                [] OTHER -> NotFound
    /\ pc' = "done"
    /\ UNCHANGED result

NextRouting == RouteGetArticles \/ RouteGetItems

SpecRouting == InitRouting /\ [][NextRouting]_vars

----------------------------------------------------------------------------
(* One update of a stored record                                           *)

\* article_models.Article records sent as the body of an update: the stored
\* ones, a changed body under each id, and one with a created_at of its own
UpdatedArticles ==
    {ArticleA, ArticleB,
     [ArticleB EXCEPT !.id = <<"a">>],
     [ArticleA EXCEPT !.id = <<"b">>, !.theme = "warm"],
     [ArticleA EXCEPT !.id = <<"c">>, !.created_at = Some(MaxClock)],
     [ArticleB EXCEPT !.id = <<" ">>]}

\* args remembers the collections as they were before the request
InitUpdate ==
    /\ pc = "start"
    /\ deployment \in {"items", "articles"}
    /\ items \in {store \in ItemStores : deployment = "items"} \cup {<<>>}
    /\ articles \in {store \in ArticleStores : deployment = "articles"} \cup {<<>>}
    /\ args = [items |-> items, articles |-> articles]
    /\ result = None
    /\ users = <<>>
    /\ indexes = StartupIndexes
    /\ next_id = Len(items) + Len(articles) + 1
    /\ clock = IF Len(items) + Len(articles) = 0 THEN 1
               ELSE Min(Len(items) + Len(articles), MaxClock)
    /\ request = [op |-> "none"]
    /\ response = [op |-> "none"]

PatchItem ==
    Once /\ \E item_id \in {[hex |-> n] : n \in 1..(MaxStored + 1)} \cup {[text |-> "abc"]},
               item_update \in PatchUpdates :
                update_item(item_id, item_update)

ReplaceArticle ==
    Once /\ \E article_id \in ArticleIds, article \in UpdatedArticles :
                update_article(article_id, article)

NextUpdate == PatchItem \/ ReplaceArticle

SpecUpdate == InitUpdate /\ [][NextUpdate]_vars

----------------------------------------------------------------------------
(* Claims about the excerpt extractor                                      *)

TextTypes == {"mainText", "reflection"}

\* the indices of the mainText/reflection blocks of a sequence
TextBlockIndices(bs) == {i \in DOMAIN bs : bs[i].type \in TextTypes}

\* the text the excerpt is to be taken from: that of the least-indexed
\* mainText/reflection block, else that of the first block
ChosenText(bs) ==
    IF TextBlockIndices(bs) # {}
    THEN bs[CHOOSE i \in TextBlockIndices(bs) : \A j \in TextBlockIndices(bs) : i <= j].value
    ELSE bs[1].value

HasEllipsis(e) == Len(e) >= 3 /\ SubSeq(e, Len(e) - 2, Len(e)) = Ellipsis

BeforeEllipsis(e) == SubSeq(e, 1, Len(e) - 3)

\* every word of body is a word of text, in order from its first word:
\* body ends on no fragment of a word of text
WholeWordsOf(body, text) ==
    /\ Len(split(body)) <= Len(split(text))
    /\ split(body) = SubSeq(split(text), 1, Len(split(body)))

\* e is text when it fits, else the first max_length characters of text cut
\* back to the words before the last one (one word alone is kept), single
\* spaced, with the ellipsis appended
IsExcerptOf(e, text, max_length) ==
    IF Len(text) <= max_length
    THEN e = text
    ELSE LET cut == split(Take(text, max_length))
             n == IF Len(cut) > 1 THEN Len(cut) - 1 ELSE Len(cut)
         IN  /\ HasEllipsis(e)
             /\ split(BeforeEllipsis(e)) = SubSeq(cut, 1, n)
             /\ BeforeEllipsis(e) = join(split(BeforeEllipsis(e)))

\* C3: the excerpt is taken from the first mainText/reflection block in
\* sequence order; with no such block, from the first block whatever its
\* type; of the empty sequence it is the empty string.  A scripture block
\* ahead of a mainText/reflection block is never the one chosen.
ExcerptTakenFromFirstTextBlock ==
    pc = "done" =>
        LET bs == args.content_blocks IN
        /\ bs = <<>> => result = <<>>
        /\ bs # <<>> => IsExcerptOf(result, ChosenText(bs), args.max_length)

\* a scripture block precedes a mainText block of another text, and the excerpt is the latter's
ScriptureSkippedForMainText ==
    /\ pc = "done"
    /\ Len(args.content_blocks) = 3
    /\ args.content_blocks[1].type = "scripture"
    /\ args.content_blocks[2].type = "scripture"
    /\ args.content_blocks[3].type = "reflection"
    /\ args.content_blocks[1].value = <<"x", "x">>
    /\ args.content_blocks[3].value = <<"x">>
    /\ result = <<"x">>

\* C4 (as amended): on both paths a text of length <= max_length is
\* returned unmodified; a longer one yields the words of its first
\* max_length characters, the last dropped when there is more than one,
\* single spaced and followed by "..."; and when more than one word resulted
\* the excerpt carries no trailing partial word.
ExcerptTruncatedAtWordBoundary ==
    (pc = "done" /\ args.content_blocks # <<>>) =>
        LET text == ChosenText(args.content_blocks)
            cut == split(Take(text, args.max_length))
        IN  /\ IsExcerptOf(result, text, args.max_length)
            /\ (Len(text) > args.max_length /\ Len(cut) > 1)
                   => WholeWordsOf(BeforeEllipsis(result), text)

\* the fallback path truncates a scripture text of several words one character too long
FallbackTruncatedAfterWord ==
    /\ pc = "done"
    /\ args.max_length = 3
    /\ args.content_blocks = <<[type |-> "scripture", value |-> <<"x", " ", "x", "x">>]>>
    /\ result = <<"x", ".", ".", ".">>

\* C4 (as claimed): every truncated excerpt ends with the ellipsis and
\* carries no trailing partial word.
ExcerptNeverEndsOnPartialWord ==
    (pc = "done" /\ args.content_blocks # <<>>) =>
        LET text == ChosenText(args.content_blocks) IN
        /\ IsExcerptOf(result, text, args.max_length)
        /\ Len(text) > args.max_length
               => WholeWordsOf(BeforeEllipsis(result), text)

----------------------------------------------------------------------------
(* Claims about the item filter                                            *)

TagsIntersect(doc, tags) == "tags" \in DOMAIN doc /\ Range(doc.tags) \cap Range(tags) # {}

\* the item satisfies the category, is_active and price constraints supplied
SatisfiesScalars(f, doc) ==
    /\ f.category # None => ("category" \in DOMAIN doc /\ doc.category = f.category[1])
    /\ f.is_active # None => ("is_active" \in DOMAIN doc /\ doc.is_active = f.is_active[1])
    /\ f.min_price # None => doc.price >= f.min_price[1]
    /\ f.max_price # None => doc.price <= f.max_price[1]

\* C2 (as amended): the predicate matches the item iff the item satisfies
\* every supplied constraint - category equal, is_active equal, price on the
\* right side of each supplied bound, and its tags intersecting the supplied
\* tag list when that list is non-empty; a field not supplied, and an empty
\* tag list, constrain nothing.
FilterMatchesIffConstraintsHold ==
    pc = "done" =>
        (result.matched <=>
            /\ SatisfiesScalars(args.filters, args.item)
            /\ (args.filters.tags # None /\ args.filters.tags[1] # <<>>)
                   => TagsIntersect(args.item, args.filters.tags[1]))

\* is_active = false and a bound of 0 are supplied and reject an active item of price 1
FalsyConstraintsApplied ==
    /\ pc = "done"
    /\ args.filters.is_active = Some(FALSE)
    /\ args.filters.min_price = Some(0)
    /\ args.filters.tags = Some(<<"t1", "t2">>)
    /\ FieldEquals(args.item, "is_active", TRUE)
    /\ FieldEquals(args.item, "tags", <<"t2">>)
    /\ ~result.matched

\* C2 (as claimed): every supplied (non-null) tag list constrains the item's
\* tags to intersect it.
FilterMatchesIffSuppliedHold ==
    pc = "done" =>
        (result.matched <=>
            /\ SatisfiesScalars(args.filters, args.item)
            /\ args.filters.tags # None => TagsIntersect(args.item, args.filters.tags[1]))

----------------------------------------------------------------------------
(* Claims about the text search                                            *)

\* text contains q as a substring, letters compared case folded
ContainsFolded(text, q) ==
    \E s \in 1..(Len(text) - Len(q) + 1) :
        \A j \in 1..Len(q) : Lower(q[j]) = Lower(text[s + j - 1])

\* the name or the description of the item contains q
ItemContains(item, q) ==
    \/ ContainsFolded(item.name, q)
    \/ item.description # None /\ ContainsFolded(item.description[1], q)

\* some term of q is a whole term of the name or of the description
ItemSharesTerm(item, q) ==
    \E term \in Tokens(q) :
        \/ term \in Tokens(item.name)
        \/ item.description # None /\ term \in Tokens(item.description[1])

TamilTexts(article) == {article.title.tamil} \cup {b.value : b \in Range(article.content.tamil)}

EnglishTexts(article) == {article.title.english} \cup {b.value : b \in Range(article.content.english)}

ArticleContains(article, q) ==
    \E text \in TamilTexts(article) \cup EnglishTexts(article) : ContainsFolded(text, q)

\* the other filter field of the call is satisfied (search_items and
\* search_articles take none)
OtherFieldHolds ==
    /\ (result.op = "build_filter_query" /\ args.category # None)
           => args.item.category = args.category[1]
    /\ (result.op = "build_search_query" /\ args.theme # None)
           => args.article.theme = args.theme[1]

Occurs(q, text) == RegexSearch(SearchRegex(q), text)

\* C6: with a language and a search text given, an article matches only if
\* the text occurs in that language's title or content values, for
\* build_search_query and for search_articles.
SearchScopedToLanguage ==
    (pc = "done" /\ args.kind = "article" /\ args.language # None /\ result.matched) =>
        \E text \in (IF args.language[1] = "tamil"
                     THEN TamilTexts(args.article) ELSE EnglishTexts(args.article)) :
            Occurs(args.q, text)

----------------------------------------------------------------------------
(* Claims about the projections                                            *)

\* the field of the projection is the document's when it has one, else the default
CopiedOrDefault(doc, value, key, default) ==
    value[key] = (IF key \in DOMAIN doc THEN doc[key] ELSE default)

\* C7: item_helper copies every present field unchanged and fills category =
\* other, tags = [], is_active = true exactly for the fields the document
\* lacks; user_helper fills role = user (and is_active = true) likewise.  A
\* present value is never replaced, so apart from defaulted timestamps the
\* projection is the same on every call.
ProjectionCopiesOrDefaults ==
    pc = "done" =>
        LET doc == args.doc
            value == result.value
        IN  /\ value.id.hex = doc["_id"].oid
            /\ \A key \in {"created_at", "updated_at"} :
                   key \in DOMAIN doc => value[key] = doc[key]
            /\ CopiedOrDefault(doc, value, "is_active", TRUE)
            /\ args.kind = "item" =>
                   /\ \A key \in {"name", "price", "quantity"} : value[key] = doc[key]
                   /\ CopiedOrDefault(doc, value, "description", None)
                   /\ CopiedOrDefault(doc, value, "category", "other")
                   /\ CopiedOrDefault(doc, value, "tags", <<>>)
            /\ args.kind = "user" =>
                   /\ \A key \in {"username", "email"} : value[key] = doc[key]
                   /\ CopiedOrDefault(doc, value, "full_name", None)
                   /\ CopiedOrDefault(doc, value, "role", "user")

\* an item stored with is_active = false and tags = [] but no category is
\* projected with both kept and category = other
PresentFalseKeptAbsentDefaulted ==
    /\ pc = "done"
    /\ args.kind = "item"
    /\ "category" \notin DOMAIN args.doc
    /\ FieldEquals(args.doc, "is_active", FALSE)
    /\ FieldEquals(args.doc, "tags", <<>>)
    /\ result.value.category = "other"
    /\ result.value.is_active = FALSE
    /\ result.value.tags = <<>>

----------------------------------------------------------------------------
(* Claims about the handlers of the item service                           *)

\* the stored item satisfies every constraint an ItemFilter supplies
Satisfying(f, doc) ==
    /\ SatisfiesScalars(f, doc)
    /\ (f.tags # None /\ f.tags[1] # <<>>) => TagsIntersect(doc, f.tags[1])
    /\ (f.search # None /\ f.search[1] # <<>>) => ItemSharesTerm(doc, f.search[1])

\* the number of stored items matching the filter of the request
MatchingTotal ==
    Cardinality({i \in DOMAIN args.items : Satisfying(request.filters, args.items[i])})

\* C1: for every skip >= 0 and limit >= 1, get_items answers has_next =
\* (skip + limit < total) and has_previous = (skip > 0), total being the
\* number of stored items that match the filter; the flags are determined
\* by these three values alone.
PaginationFlags ==
    (pc = "done" /\ request.op = "get_items") =>
        /\ response.status = 200
        /\ response.body.total = MatchingTotal
        /\ response.body.has_next = (request.skip + request.limit < MatchingTotal)
        /\ response.body.has_previous = (request.skip > 0)

\* a middle page of a filtered listing: there is a page before it and one after it
MiddlePageListed ==
    /\ pc = "done"
    /\ request.op = "get_items"
    /\ request.filters # NoFilter
    /\ request.skip = 1
    /\ request.limit = 1
    /\ response.body.has_next
    /\ response.body.has_previous

\* the fields an ItemUpdate sets
FieldsSet(item_update) == {k \in DOMAIN item_update : item_update[k] # None}

\* the stored documents differ in the given field and updated_at at most
SameBut(old, new, field) ==
    /\ DOMAIN new = DOMAIN old \cup {field, "updated_at"}
    /\ \A k \in DOMAIN old \ {field, "updated_at"} : new[k] = old[k]

\* C9 (as claimed): update_item with every field unset signals 'No fields
\* to update' and leaves the store unchanged; with exactly one field set on
\* an existing item, the stored item changes in that field and updated_at
\* and in no other field.  Violated: the caller is told 'Invalid item ID'.
PatchSignalsNoFields ==
    (pc = "done" /\ request.op = "update_item") =>
        /\ FieldsSet(request.item_update) = {} =>
               /\ response.status = 400
               /\ response.detail.message = "No fields to update"
               /\ items = args.items
        /\ \A field \in FieldsSet(request.item_update) :
               \A i \in DOMAIN args.items :
                   (/\ FieldsSet(request.item_update) = {field}
                    /\ args.items[i]["_id"] = ObjectId(request.item_id))
                       => /\ SameBut(args.items[i], items[i], field)
                          /\ items[i][field] = UpdateData(request.item_update)[field]
                          /\ \A j \in DOMAIN items \ {i} : items[j] = args.items[j]

----------------------------------------------------------------------------
(* Claims about the article summaries                                      *)

\* the summaries a response of the article listing or of the search delivers
DeliveredSummaries ==
    IF request.op \notin {"get_articles", "search_articles"} THEN {}
    ELSE IF response.status # 200 THEN {}
    ELSE IF request.op = "get_articles" THEN Range(response.body.articles)
    ELSE Range(response.body)

\* C8 (as claimed): every article summary delivered by get_articles and by
\* search_articles carries id, title, theme, created_at and an excerpt with
\* a tamil and an english text, and carries no content.  Violated: the
\* summaries of search_articles are delivered without the excerpt.
SummariesCarryExcerpt ==
    \A summary \in DeliveredSummaries :
        /\ {"id", "title", "theme", "created_at", "excerpt"} \subseteq DOMAIN summary
        /\ "content" \notin DOMAIN summary
        /\ DOMAIN summary.excerpt = {"tamil", "english"}

----------------------------------------------------------------------------
(* Claims about creating a record and reading it back                      *)

\* the fields the server assigns
ServerAssigned ==
    IF deployment = "items" THEN {"id", "created_at", "updated_at"}
    ELSE {"created_at", "updated_at"}

\* C10: a valid record that is created and then read by its identifier,
\* nothing happening in between, comes back equal to what was sent in every
\* field but the server-assigned id and timestamps - an item through
\* create_item and get_item, an article through create_article and
\* get_article_by_id.
RoundTripReturnsInput ==
    pc = "done" =>
        /\ response.status = 200
        /\ DOMAIN response.body \ ServerAssigned = DOMAIN args.created \ ServerAssigned
        /\ \A k \in DOMAIN args.created \ ServerAssigned : response.body[k] = args.created[k]

\* an inactive item is read back from a collection that held another item before it
InactiveItemReadBack ==
    /\ pc = "done"
    /\ deployment = "items"
    /\ Len(items) > 1
    /\ ~args.created.is_active
    /\ args.created.description # None
    /\ request.op = "get_item"
    /\ response.status = 200
    /\ response.body.name # item_helper(items[1], clock).name

----------------------------------------------------------------------------
(* Claims about creations with the same unique key                         *)

\* the collection the running service creates into
Created == IF deployment = "items" THEN users ELSE articles

\* the stored documents that carry a unique key of the first record
HoldersOfKey(coll) ==
    IF deployment = "items"
    THEN {i \in DOMAIN coll : \/ coll[i].username = args.first.username
                              \/ coll[i].email = args.first.email}
    ELSE {i \in DOMAIN coll : coll[i].id = args.first.id}

\* C11: of two creations with the same unique key made one after the other
\* (create_article with the same id, create_user with the same username or
\* the same email), the second is answered with a client error and the
\* store afterwards holds exactly the first record, unchanged in every field.
SecondCreateConflicts ==
    pc = "done" =>
        /\ response.status \in 400..499
        /\ Created = args.stored
        /\ \E i \in DOMAIN Created :
               /\ HoldersOfKey(Created) = {i}
               /\ \A k \in DOMAIN args.first \ {"created_at", "updated_at"} :
                      Created[i][k] = args.first[k]

\* a second user with the email of the first and another username is refused
SameEmailRefused ==
    /\ pc = "done"
    /\ deployment = "items"
    /\ request.op = "create_user"
    /\ request.user.email = args.first.email
    /\ request.user.username # args.first.username
    /\ response.status = 400
    /\ Len(users) = 1

----------------------------------------------------------------------------
(* Claims about concurrent creations with the same unique key              *)

\* the stored documents that carry a unique key of the first request
StoredWithKey ==
    IF deployment = "items"
    THEN {i \in DOMAIN users : \/ users[i].username = args[1].username
                               \/ users[i].email = args[1].email}
    ELSE {i \in DOMAIN articles : articles[i].id = args[1].id}

BothAnswered == \A p \in Requests : pc[p] = "done"

\* C12 (as claimed): whatever the interleaving of two concurrent creations
\* with the same unique key, at most one record with the key is stored at
\* the end and the losing request is answered with a client error, whether
\* or not an upload has ever run.  Violated: without the index on the
\* article id both records are stored; with an index the loser gets a 500.
RaceEndsInConflict ==
    BothAnswered =>
        /\ Cardinality(StoredWithKey) <= 1
        /\ \E p \in Requests : response[p].status \in 400..499
        /\ \A p \in Requests : response[p].status = 200 \/ response[p].status \in 400..499

----------------------------------------------------------------------------
(* Claims about the bulk upload                                            *)

\* the entries of the pages array of the uploaded document, <<>> where there is none
ProvidedPages ==
    IF request.file.kind = "json" /\ IsObject(request.file.data)
    THEN Get(request.file.data, "pages", <<>>)
    ELSE <<>>

\* the collection holds one record for each entry of pages, in order, and nothing else
HoldsExactlyPages ==
    /\ Len(articles) = Len(ProvidedPages)
    /\ \A n \in DOMAIN articles :
           /\ IsObject(ProvidedPages[n])
           /\ articles[n].id = Get(ProvidedPages[n], "id", <<>>)

\* the documents this upload inserted: those whose _id the collection did not hold before
InsertedByUpload ==
    {n \in DOMAIN articles : \A m \in DOMAIN args.articles :
                                 args.articles[m]["_id"] # articles[n]["_id"]}

\* C13 (as claimed): every upload either reports success with the collection
\* holding exactly the records of the pages array, or reports a failure
\* before any provided record has been inserted; none reports a failure
\* after inserting some or all of them.  Violated: pages with a repeated
\* id are inserted and the upload then fails building the unique index.
UploadAllOrNothing ==
    (pc = "done" /\ request.op = "upload_articles_from_json") =>
        \/ response.status = 200 /\ HoldsExactlyPages
        \/ response.status # 200 /\ InsertedByUpload = {}

\* C14 (as claimed): a malformed upload document - file missing, not valid
\* JSON, or no entries in pages - is answered with a client error (4xx).
\* Violated: an empty pages array is answered with status 500.
MalformedUploadIsClientError ==
    (/\ pc = "done"
     /\ request.op = "upload_articles_from_json"
     /\ \/ request.file.kind \in {"missing", "invalid"}
        \/ request.file.kind = "json" /\ IsObject(request.file.data) /\ ProvidedPages = <<>>)
        => response.status \in 400..499

----------------------------------------------------------------------------
(* Claims about the answers of the running services                        *)

\* the request answered by the step asks for an item by a well-formed id the store lacks
AbsentItemAsked ==
    /\ request'.op \in {"get_item", "update_item", "delete_item"}
    /\ ObjectIdValid(request'.item_id)
    /\ FindById(items, ObjectId(request'.item_id)) = 0
    /\ request'.op = "update_item" => FieldsSet(request'.item_update) # {}

\* the request answered by the step asks for an article by an id the store lacks
AbsentArticleAsked ==
    /\ request'.op \in {"get_article_by_id", "update_article"}
    /\ FindByArticleId(articles, request'.article_id) = 0

NotFoundAnswered ==
    /\ response'.status = 404
    /\ response'.detail.message \in {"Item not found", "Article with id '{id}' not found"}
    /\ items' = items
    /\ articles' = articles

\* C15 (as claimed): for a well-formed identifier absent from the store,
\* get_item, update_item, delete_item, get_article_by_id and update_article
\* answer 404 with a not-found message, other than the answer to a malformed
\* identifier, and leave the store unchanged.  Violated: the item handlers
\* answer 400 'Invalid item ID'.
AbsentIdReportedNotFound ==
    [][(AbsentItemAsked \/ AbsentArticleAsked) => NotFoundAnswered]_vars

\* C18 (as claimed): the article listing succeeds for every store state and
\* filter and returns the complete envelope (articles, total, skip, limit,
\* has_next, has_previous), total being the number of stored articles
\* matching the filter.  Violated: every listing is answered with status 500.
ListingReturnsEnvelope ==
    request.op = "get_articles" =>
        /\ response.status = 200
        /\ DOMAIN response.body = ArticleListResponseFields
        /\ response.body.total =
               Cardinality({i \in DOMAIN articles :
                   /\ request.theme # None => articles[i].theme = request.theme[1]
                   /\ request.search # None => ArticleContains(articles[i], request.search[1])})
        /\ Len(response.body.articles) <= 50

\* C20 (as claimed): in every state reached from an empty collection by
\* create_article, update_article and upload_articles_from_json calls that
\* do not overlap, no two stored articles share an id and every stored id is
\* non-empty and at most 100 characters long.  Violated: an upload stores
\* the ids of its file unchecked.
StoredIdsUniqueAndValid ==
    /\ \A i, j \in DOMAIN articles : articles[i].id = articles[j].id => i = j
    /\ \A i \in DOMAIN articles :
           /\ articles[i].id # <<>>
           /\ Len(articles[i].id) <= ArticleIdLimit

----------------------------------------------------------------------------
(* Claims about a store that cannot be reached                             *)

\* the handler reached its store call: the id was well-formed and the update not empty
StoreCalled ==
    /\ request.op \in {"get_item", "update_item", "delete_item"} => ObjectIdValid(request.item_id)
    /\ request.op = "update_item" => FieldsSet(request.item_update) # {}

\* C16 (as claimed): when a store call fails inside a handler - item get,
\* update, delete, article create, update, the health check - the caller
\* receives a server error (5xx), never a client error and never success.
\* Violated: the item handlers answer 400 'Invalid item ID'.
StoreFailureIsServerError ==
    (pc = "done" /\ StoreCalled) => response.status \in 500..599

----------------------------------------------------------------------------
(* Claims about the dispatch of the search path                            *)

SearchPathAsked == pc = "done" /\ args.path = <<args.path[1], "search">>

\* C17 (as claimed): a GET request to /articles/search (and to
\* /items/search) with a query q is handled by the search operation and
\* answered with the matching records; it is never dispatched to the
\* get-by-id operation with 'search' taken as the identifier.  Violated:
\* /articles/{article_id} is registered before /articles/search.
SearchPathReachesSearch ==
    SearchPathAsked =>
        /\ request.op \in {"search_articles", "search_items"}
        /\ request.q = args.q
        /\ response.status = 200

----------------------------------------------------------------------------
(* Claims about the timestamps of an updated record                        *)

CollectionBefore == IF deployment = "items" THEN args.items ELSE args.articles

CollectionAfter == IF deployment = "items" THEN items ELSE articles

\* the position of the record the request updates; 0 if the request is
\* refused or names no stored record
UpdatedPosition ==
    IF request.op = "update_item"
    THEN IF UpdateData(request.item_update) # EmptyDict /\ ObjectIdValid(request.item_id)
         THEN FindById(CollectionBefore, ObjectId(request.item_id))
         ELSE 0
    ELSE IF FindByArticleId(CollectionBefore, request.article_id) # 0
            /\ "returned" \in DOMAIN RefusedUpdate(CollectionBefore, request.article_id,
                                                   request.article)
         THEN FindByArticleId(CollectionBefore, request.article_id)
         ELSE 0

\* C19: after update_article (also one that changes the id) and after
\* update_item, every stored record has the created_at it had before the
\* request (a record without one still has none), and the updated record's
\* updated_at is the time of the update
UpdateKeepsCreatedAtAndStampsUpdatedAt ==
    pc = "done" =>
        /\ Len(CollectionAfter) = Len(CollectionBefore)
        /\ \A i \in DOMAIN CollectionAfter :
              /\ CollectionAfter[i]["_id"] = CollectionBefore[i]["_id"]
              /\ ("created_at" \in DOMAIN CollectionAfter[i])
                     <=> ("created_at" \in DOMAIN CollectionBefore[i])
              /\ Get(CollectionAfter[i], "created_at", 0)
                     = Get(CollectionBefore[i], "created_at", 0)
        /\ UpdatedPosition # 0 => CollectionAfter[UpdatedPosition]["updated_at"] = clock

\* a replacement that changes the id of an article is accepted at a later
\* instant than the article's creation
IdChangedLater ==
    /\ pc = "done"
    /\ request.op = "update_article"
    /\ response.status = 200
    /\ request.article.id # request.article_id
    /\ UpdatedPosition # 0
    /\ articles[UpdatedPosition].id = request.article.id
    /\ articles[UpdatedPosition]["created_at"] < clock
    /\ articles[UpdatedPosition]["updated_at"] = clock

----------------------------------------------------------------------------
(* Claims about the item filter and the item projection together           *)

\* the stored items whose projected response shows the value in the field
ProjectedWith(field, value) ==
    {i \in DOMAIN args.items : item_helper(args.items[i], clock)[field] = value}

\* the listing counts exactly the items projected with the value, and
\* every item on its page is projected with it
ListingAgrees(field, value) ==
    /\ response.status = 200
    /\ response.body.total = Cardinality(ProjectedWith(field, value))
    /\ \A i \in DOMAIN response.body.items : response.body.items[i][field] = value

\* C21 (as claimed): on every stored document, also one written without
\* the optional fields, the listing filtered on is_active = true
\* (category = other) returns exactly the items whose projected response
\* shows is_active = true (category = other).  Violated: a document
\* without the field is projected with the default and matches no filter.
FilterAgreesWithProjection ==
    (pc = "done" /\ request.op = "get_items") =>
        /\ request.filters = [NoFilter EXCEPT !.is_active = Some(TRUE)]
               => ListingAgrees("is_active", TRUE)
        /\ request.filters = [NoFilter EXCEPT !.category = Some("other")]
               => ListingAgrees("category", "other")

====
